---- MODULE Spec2Model ----
(***************************************************************************)
(* A model of the pypage template pipeline (rust_rewrite/pypage/src/lib.rs) *)
(* lex -> prune_tokens -> build_tree -> exec_tree.                          *)
(*                                                                          *)
(* Strings are sequences of one-character strings.  Every character of the  *)
(* model is ASCII, so a byte index of the source is a character index; the  *)
(* indices keep the source's 0-based convention and are shifted by one      *)
(* where a sequence is read.                                                *)
(***************************************************************************)
EXTENDS Integers, Sequences, FiniteSets, TLC

VARIABLES
    src,        \* the source string handed to lex / parse / pypage_process
    pc,         \* the position of the pipeline
    lx,         \* the locals of lex (tokens, current_token, comment_tag_depth, ...)
    ps,         \* the parser: TokenQueue, call stack of the builders, result of parse
    ex          \* the evaluator: globals, call stack, error stream, result

vars == <<src, pc, lx, ps, ex>>

----------------------------------------------------------------------------
(* Bounds of the model *)

\* longest source drawn character by character from the lexer alphabet
MaxLen == 5
\* most pieces (comment delimiters and filler) of a source built from pieces
MaxPieces == 7
\* most tags and texts of a template built from the structural pieces
MaxTags == 4

----------------------------------------------------------------------------
(* Strings *)

SeqsUpTo(S, n) == UNION {[1..k -> S] : k \in 0..n}

RECURSIVE Flatten(_)
Flatten(ss) == IF ss = <<>> THEN <<>> ELSE Head(ss) \o Flatten(Tail(ss))

\* s[from..to) with 0-based byte indices, as Rust's &s[from..to]
Slice(s, from, to) == SubSeq(s, from + 1, to)

\* str::starts_with
StartsWith(s, p) == Len(s) >= Len(p) /\ SubSeq(s, 1, Len(p)) = p

\* str::ends_with
EndsWith(s, p) == Len(s) >= Len(p) /\ SubSeq(s, Len(s) - Len(p) + 1, Len(s)) = p

\* str::contains for a pattern string
Contains(s, p) == \E k \in 1..(Len(s) - Len(p) + 1) : SubSeq(s, k, k + Len(p) - 1) = p

----------------------------------------------------------------------------
(* Tag delimiters *)

CODE_OPEN == <<"{", "{">>
CODE_CLOSE == <<"}", "}">>
COMMENT_OPEN == <<"{", "#">>
COMMENT_CLOSE == <<"#", "}">>
BLOCK_OPEN == <<"{", "%">>
BLOCK_CLOSE == <<"%", "}">>

----------------------------------------------------------------------------
(* Errors, locations, tokens *)

\* Location { line, column }
Location(line, column) == [line |-> line, column |-> column]

\* the place of a value that has no Location (Token::Text)
NoLoc == Location(0, 0)

\* One shape for every PypageError the pipeline raises: `a` and `b` are the
\* variant's string fields in declaration order (open_delim/close_delim, tag,
\* expected/found, src, varname, name), line and column its Location.
Error(kind, a, b, loc) == [kind |-> kind, a |-> a, b |-> b, line |-> loc.line, column |-> loc.column]

NoError == Error("none", <<>>, <<>>, NoLoc)

\* Token::Text(src), Token::Code/Comment/Block { src, loc }
Token(kind, s, loc) == [kind |-> kind, src |-> s, loc |-> loc]

\* TokenInProgress::None / Text(start) / Code|Comment|Block(start, loc)
InProgress(kind, start, loc) == [kind |-> kind, start |-> start, loc |-> loc]

----------------------------------------------------------------------------
(* Lexer *)

\* Option<char>::None
NoChar == ""

matches_two_char_delim(c, next_char, delim) ==
    /\ next_char # NoChar
    /\ Len(delim) = 2
    /\ c = delim[1]
    /\ next_char = delim[2]

IsOpener(c, next_char) ==
    \/ matches_two_char_delim(c, next_char, CODE_OPEN)
    \/ matches_two_char_delim(c, next_char, COMMENT_OPEN)
    \/ matches_two_char_delim(c, next_char, BLOCK_OPEN)

\* the locals of lex before the first iteration
LexInit == [
    tokens |-> <<>>,
    current_token |-> InProgress("None", 0, NoLoc),
    comment_tag_depth |-> 0,
    line_number |-> 1,
    newline_position |-> 0,
    i |-> 0,
    result |-> "running",
    error |-> NoError ]

\* a lexer that does not count an opener met inside a comment
DepthAfterInnerOpen_Uncounted(depth) == depth

\* the depth counter after a `{#` met inside a comment
DepthAfterInnerOpen(depth) == depth + 1

\* the depth counter after a `#}` met inside a comment
DepthAfterClose(depth) == depth - 1

\* a capture that loses the last byte of the body
TagBody_ShortByOne(s, start, byte_pos) == Slice(s, start, byte_pos - 1)

\* the body a finished tag captures: the bytes between opener and closer
TagBody(s, start, byte_pos) == Slice(s, start, byte_pos)

\* the text a Text token captures when an opener ends it
TextRun(s, start, byte_pos) == Slice(s, start, byte_pos)

IsMultiLine_Never(block_src) == FALSE

\* block_src.contains('\n')
IsMultiLine(block_src) == Contains(block_src, <<"\n">>)

\* One iteration of the scanning loop, for i < chars.len()
LexStep(s, st) ==
    LET byte_pos == st.i
        c == s[st.i + 1]
        next_char == IF st.i + 1 < Len(s) THEN s[st.i + 2] ELSE NoChar
        line_number == IF c = "\n" THEN st.line_number + 1 ELSE st.line_number
        newline_position == IF c = "\n" THEN byte_pos ELSE st.newline_position
        column_number == byte_pos - newline_position
        loc == Location(line_number, column_number)
        start_pos == IF st.i + 2 < Len(s) THEN st.i + 2 ELSE Len(s)
        cur == st.current_token
        st1 == [st EXCEPT !.line_number = line_number,
                          !.newline_position = newline_position]
    IN
    CASE cur.kind = "None" ->
            IF matches_two_char_delim(c, next_char, CODE_OPEN)
            THEN [st1 EXCEPT !.current_token = InProgress("Code", start_pos, loc),
                             !.i = @ + 2]
            ELSE IF matches_two_char_delim(c, next_char, COMMENT_OPEN)
            THEN [st1 EXCEPT !.current_token = InProgress("Comment", start_pos, loc),
                             !.comment_tag_depth = @ + 1,
                             !.i = @ + 2]
            ELSE IF matches_two_char_delim(c, next_char, BLOCK_OPEN)
            THEN [st1 EXCEPT !.current_token = InProgress("Block", start_pos, loc),
                             !.i = @ + 2]
            ELSE \* the character is looked at again by the next iteration
                 [st1 EXCEPT !.current_token = InProgress("Text", byte_pos, NoLoc)]
      [] cur.kind = "Text" ->
            IF IsOpener(c, next_char)
            THEN LET toks == IF byte_pos > cur.start
                             THEN Append(st.tokens,
                                         Token("Text", TextRun(s, cur.start, byte_pos), NoLoc))
                             ELSE st.tokens
                 IN
                 IF matches_two_char_delim(c, next_char, CODE_OPEN)
                 THEN [st1 EXCEPT !.tokens = toks,
                                  !.current_token = InProgress("Code", start_pos, loc),
                                  !.i = @ + 2]
                 ELSE IF matches_two_char_delim(c, next_char, COMMENT_OPEN)
                 THEN [st1 EXCEPT !.tokens = toks,
                                  !.current_token = InProgress("Comment", start_pos, loc),
                                  !.comment_tag_depth = @ + 1,
                                  !.i = @ + 2]
                 ELSE [st1 EXCEPT !.tokens = toks,
                                  !.current_token = InProgress("Block", start_pos, loc),
                                  !.i = @ + 2]
            ELSE [st1 EXCEPT !.i = @ + 1]
      [] cur.kind = "Code" ->
            IF matches_two_char_delim(c, next_char, CODE_CLOSE)
            THEN [st1 EXCEPT !.tokens = Append(@, Token("Code", TagBody(s, cur.start, byte_pos), cur.loc)),
                             !.current_token = InProgress("None", 0, NoLoc),
                             !.i = @ + 2]
            ELSE [st1 EXCEPT !.i = @ + 1]
      [] cur.kind = "Comment" ->
            IF matches_two_char_delim(c, next_char, COMMENT_OPEN)
            THEN [st1 EXCEPT !.comment_tag_depth = DepthAfterInnerOpen(@),
                             !.i = @ + 2]
            ELSE IF matches_two_char_delim(c, next_char, COMMENT_CLOSE)
            THEN IF DepthAfterClose(st.comment_tag_depth) = 0
                 THEN [st1 EXCEPT !.comment_tag_depth = DepthAfterClose(@),
                                  !.tokens = Append(@, Token("Comment", TagBody(s, cur.start, byte_pos), cur.loc)),
                                  !.current_token = InProgress("None", 0, NoLoc),
                                  !.i = @ + 2]
                 ELSE [st1 EXCEPT !.comment_tag_depth = DepthAfterClose(@),
                                  !.i = @ + 2]
            ELSE [st1 EXCEPT !.i = @ + 1]
      [] cur.kind = "Block" ->
            IF matches_two_char_delim(c, next_char, BLOCK_CLOSE)
            THEN LET block_src == TagBody(s, cur.start, byte_pos)
                 IN
                 IF IsMultiLine(block_src)
                 THEN [st1 EXCEPT !.result = "err",
                                  !.error = Error("MultiLineBlockTag", <<>>, <<>>, cur.loc)]
                 ELSE [st1 EXCEPT !.tokens = Append(@, Token("Block", block_src, cur.loc)),
                                  !.current_token = InProgress("None", 0, NoLoc),
                                  !.i = @ + 2]
            ELSE [st1 EXCEPT !.i = @ + 1]

IncompleteTagNode_AsCode(open_delim, close_delim, loc) ==
    Error("IncompleteTagNode", CODE_OPEN, CODE_CLOSE, loc)

\* PypageError::IncompleteTagNode { open_delim, close_delim, line, column }
IncompleteTagNode(open_delim, close_delim, loc) ==
    Error("IncompleteTagNode", open_delim, close_delim, loc)

\* "Handle remaining token": what lex does once the scanning loop has ended
LexFinish(s, st) ==
    LET cur == st.current_token
    IN
    CASE cur.kind = "None" -> [st EXCEPT !.result = "ok"]
      [] cur.kind = "Text" ->
            IF cur.start < Len(s)
            THEN [st EXCEPT !.tokens = Append(@, Token("Text", Slice(s, cur.start, Len(s)), NoLoc)),
                            !.result = "ok"]
            ELSE [st EXCEPT !.result = "ok"]
      [] cur.kind = "Code" ->
            [st EXCEPT !.result = "err",
                       !.error = IncompleteTagNode(CODE_OPEN, CODE_CLOSE, cur.loc)]
      [] cur.kind = "Comment" ->
            [st EXCEPT !.result = "err",
                       !.error = IncompleteTagNode(COMMENT_OPEN, COMMENT_CLOSE, cur.loc)]
      [] cur.kind = "Block" ->
            [st EXCEPT !.result = "err",
                       !.error = IncompleteTagNode(BLOCK_OPEN, BLOCK_CLOSE, cur.loc)]

RECURSIVE LexRun(_, _)
LexRun(s, st) ==
    IF st.result # "running" THEN st
    ELSE IF st.i < Len(s) THEN LexRun(s, LexStep(s, st))
    ELSE LexFinish(s, st)

\* lex(src): Ok(tokens) or Err(error), as the record's result / tokens / error
lex(s) == LexRun(s, LexInit)

----------------------------------------------------------------------------
(* Characters and string helpers of the parser *)

\* the characters of the model in ASCII order
AsciiOrder == <<"\t", "\n", " ", "#", "%", "(", ")", "+", ",",
                "0", "1", "2", "3", "4", "5", "6", "7", "8", "9", "<", "=",
                "F", "N", "T", "[", "\\", "]", "_",
                "a", "b", "c", "d", "e", "f", "g", "h", "i", "j", "k", "l", "m",
                "n", "o", "p", "q", "r", "s", "t", "u", "v", "w", "x", "y", "z",
                "{", "}">>

Ord(c) == CHOOSE k \in 1..Len(AsciiOrder) : AsciiOrder[k] = c

\* char::is_whitespace
WhiteSpace == {"\t", "\n", " "}

\* char::is_alphabetic
Alphabetic == {"F", "N", "T",
               "a", "b", "c", "d", "e", "f", "g", "h", "i", "j", "k", "l", "m",
               "n", "o", "p", "q", "r", "s", "t", "u", "v", "w", "x", "y", "z"}

\* char::is_alphanumeric
Alphanumeric == Alphabetic \cup {"0", "1", "2", "3", "4", "5", "6", "7", "8", "9"}

RECURSIVE TrimStart(_)
TrimStart(s) == IF s # <<>> /\ Head(s) \in WhiteSpace THEN TrimStart(Tail(s)) ELSE s

RECURSIVE TrimEnd(_)
TrimEnd(s) ==
    IF s # <<>> /\ s[Len(s)] \in WhiteSpace THEN TrimEnd(SubSeq(s, 1, Len(s) - 1)) ELSE s

\* str::trim
Trim(s) == TrimEnd(TrimStart(s))

\* str::replace(from, to), leftmost non-overlapping matches
RECURSIVE Replace(_, _, _)
Replace(s, from, to) ==
    IF s = <<>> THEN <<>>
    ELSE IF StartsWith(s, from) THEN to \o Replace(SubSeq(s, Len(from) + 1, Len(s)), from, to)
    ELSE <<Head(s)>> \o Replace(Tail(s), from, to)

unescape_str_cow(s) ==
    IF ~Contains(s, <<"\\", "{">>) /\ ~Contains(s, <<"\\", "}">>) THEN s
    ELSE Replace(Replace(s, <<"\\", "{">>, <<"{">>), <<"\\", "}">>, <<"}">>)

is_identifier(s) ==
    /\ s # <<>>
    /\ (s[1] \in Alphabetic \/ s[1] = "_")
    /\ \A k \in 2..Len(s) : s[k] \in Alphanumeric \/ s[k] = "_"

\* str::split_whitespace
RECURSIVE SplitWhitespace(_, _)
SplitWhitespace(s, word) ==
    IF s = <<>> THEN (IF word = <<>> THEN <<>> ELSE <<word>>)
    ELSE IF Head(s) \in WhiteSpace
         THEN (IF word = <<>> THEN <<>> ELSE <<word>>) \o SplitWhitespace(Tail(s), <<>>)
         ELSE SplitWhitespace(Tail(s), Append(word, Head(s)))

split_whitespace(s) == SplitWhitespace(s, <<>>)

\* str::split(','): the pieces between commas, empty pieces included
RECURSIVE SplitComma(_, _)
SplitComma(s, piece) ==
    IF s = <<>> THEN <<piece>>
    ELSE IF Head(s) = "," THEN <<piece>> \o SplitComma(Tail(s), <<>>)
    ELSE SplitComma(Tail(s), Append(piece, Head(s)))

\* the byte-wise order of str
RECURSIVE StrLess(_, _)
StrLess(a, b) ==
    IF b = <<>> THEN FALSE
    ELSE IF a = <<>> THEN TRUE
    ELSE IF Head(a) = Head(b) THEN StrLess(Tail(a), Tail(b))
    ELSE Ord(Head(a)) < Ord(Head(b))

\* Vec<String>::sort of a list without duplicates
RECURSIVE SortStrings(_)
SortStrings(ss) ==
    IF ss = <<>> THEN <<>>
    ELSE LET k == CHOOSE k \in 1..Len(ss) : \A j \in 1..Len(ss) : j = k \/ StrLess(ss[k], ss[j])
         IN <<ss[k]>> \o SortStrings(SubSeq(ss, 1, k - 1) \o SubSeq(ss, k + 1, Len(ss)))

\* [String]::join(sep)
RECURSIVE Join(_, _)
Join(ss, sep) ==
    IF ss = <<>> THEN <<>>
    ELSE IF Len(ss) = 1 THEN ss[1]
    ELSE ss[1] \o sep \o Join(Tail(ss), sep)

----------------------------------------------------------------------------
(* Block tags: BlockType and parse_block_type *)

kw_end == <<"e", "n", "d">>
kw_comment == <<"c", "o", "m", "m", "e", "n", "t">>
kw_if == <<"i", "f">>
kw_elif == <<"e", "l", "i", "f">>
kw_else == <<"e", "l", "s", "e">>
kw_for == <<"f", "o", "r">>
kw_in == <<"i", "n">>
kw_while == <<"w", "h", "i", "l", "e">>
kw_dofirst == <<"d", "o", "f", "i", "r", "s", "t">>
kw_slow == <<"s", "l", "o", "w">>
kw_def == <<"d", "e", "f">>
kw_capture == <<"c", "a", "p", "t", "u", "r", "e">>
kw_True == <<"T", "r", "u", "e">>
SP == <<" ">>

\* s[from..] with a 0-based byte index
From(s, from) == SubSeq(s, from + 1, Len(s))

\* One shape for every BlockType variant; a field a variant does not have
\* keeps its empty value.  continuation is Option<Box<BlockNode>>: <<>> or
\* a one-element sequence.
NoBlockType == [
    kind |-> "None", tag_type |-> "None", expr |-> <<>>, continuation |-> <<>>,
    targets |-> <<>>, genexpr |-> <<>>, dofirst |-> FALSE, slow |-> FALSE,
    funcname |-> <<>>, argnames |-> <<>>, varname |-> <<>>, tag_to_end |-> <<>> ]

EndBlock(tag_to_end) == [NoBlockType EXCEPT !.kind = "End", !.tag_to_end = tag_to_end]

CommentBlock == [NoBlockType EXCEPT !.kind = "Comment"]

ConditionalBlock(tag_type, expr) ==
    [NoBlockType EXCEPT !.kind = "Conditional", !.tag_type = tag_type, !.expr = expr]

ForBlock(targets, genexpr) ==
    [NoBlockType EXCEPT !.kind = "For", !.targets = targets, !.genexpr = genexpr]

WhileBlock(expr, dofirst, slow) ==
    [NoBlockType EXCEPT !.kind = "While", !.expr = expr, !.dofirst = dofirst, !.slow = slow]

DefBlock(funcname, argnames) ==
    [NoBlockType EXCEPT !.kind = "Def", !.funcname = funcname, !.argnames = argnames]

CaptureBlock(varname) == [NoBlockType EXCEPT !.kind = "Capture", !.varname = varname]

\* Result<BlockType, PypageError> and Result<Vec<String>, PypageError>
OkBlock(bt) == [ok |-> TRUE, block_type |-> bt, error |-> NoError]
ErrBlock(e) == [ok |-> FALSE, block_type |-> NoBlockType, error |-> e]
OkTargets(ts) == [ok |-> TRUE, targets |-> ts, error |-> NoError]
ErrTargets(e) == [ok |-> FALSE, targets |-> <<>>, error |-> e]

\* the characters find_for_targets keeps of a target word
CleanTarget(word) ==
    LET Keep(c) == c \in Alphanumeric \/ c = "_" \/ c = ","
    IN SelectSeq(word, Keep)

\* the names pushed for the words of target_list, in order, without repeats
RECURSIVE CollectTargets(_, _)
CollectTargets(names, targets) ==
    IF names = <<>> THEN targets
    ELSE LET t == Trim(Head(names))
         IN IF is_identifier(t) /\ ~(\E k \in 1..Len(targets) : targets[k] = t)
            THEN CollectTargets(Tail(names), Append(targets, t))
            ELSE CollectTargets(Tail(names), targets)

\* 0-based positions of a `for` that has two tokens after it and an `in`
\* somewhere behind it: the scan breaks at the first one
ForPositions(tokens) ==
    {i \in 0..(Len(tokens) - 1) :
        /\ tokens[i + 1] = kw_for
        /\ i + 2 < Len(tokens)
        /\ \E j \in (i + 1)..(Len(tokens) - 1) : tokens[j + 1] = kw_in}

\* tokens[for_pos + 1..].iter().position(|&x| x == "in"), from the start of tokens
InPosition(tokens, for_pos) ==
    CHOOSE j \in (for_pos + 1)..(Len(tokens) - 1) :
        /\ tokens[j + 1] = kw_in
        /\ \A k \in (for_pos + 1)..(j - 1) : tokens[k + 1] # kw_in

\* the names found in target_list = tokens[for_pos + 1..in_pos]
TargetsBetween(tokens, for_pos, in_pos) ==
    CollectTargets(
        Flatten([k \in 1..(in_pos - for_pos - 1) |->
                    SplitComma(CleanTarget(tokens[for_pos + 1 + k]), <<>>)]),
        <<>>)

TargetsFrom(tokens, for_pos) == TargetsBetween(tokens, for_pos, InPosition(tokens, for_pos))

TargetsIn(tokens, positions) ==
    IF positions = {} THEN <<>>
    ELSE TargetsFrom(tokens, CHOOSE i \in positions : \A h \in positions : i <= h)

TargetsResult(s, targets) ==
    IF targets = <<>>
    THEN ErrTargets(Error("IncorrectForTag", s, <<>>, NoLoc))
    ELSE OkTargets(SortStrings(targets))

TargetsOfTokens(s, tokens) == TargetsResult(s, TargetsIn(tokens, ForPositions(tokens)))

find_for_targets(s) == TargetsOfTokens(s, split_whitespace(s))

\* whether the trimmed tag body is read as a conditional tag
IsConditionalTag(trimmed) ==
    \/ StartsWith(trimmed, kw_if \o SP)
    \/ StartsWith(trimmed, kw_elif \o SP)
    \/ trimmed = kw_else

\* whether the trimmed tag body is read as a for tag
IsForTag(trimmed) == StartsWith(trimmed, kw_for \o SP)

\* the (tag_type, expr_str) pair of a conditional tag
ConditionalTagType(trimmed) ==
    IF StartsWith(trimmed, kw_if \o SP) THEN "If"
    ELSE IF StartsWith(trimmed, kw_elif \o SP) THEN "Elif"
    ELSE "Else"

ConditionalExpr(trimmed, tag_type) ==
    IF tag_type = "If" THEN Trim(From(trimmed, 3))
    ELSE IF tag_type = "Elif" THEN Trim(From(trimmed, 5))
    ELSE kw_True

ConditionalChecked(tag_type, expr_str, loc) ==
    IF tag_type = "Else" /\ expr_str # <<>> /\ expr_str # kw_True
    THEN ErrBlock(Error("ExpressionProhibited", kw_else, <<>>, loc))
    ELSE IF expr_str = <<>> /\ tag_type # "Else"
    THEN ErrBlock(Error("ExpressionMissing",
                        IF tag_type = "If" THEN kw_if ELSE kw_elif, <<>>, loc))
    ELSE OkBlock(ConditionalBlock(tag_type, expr_str))

ConditionalTyped(trimmed, tag_type, loc) ==
    ConditionalChecked(tag_type, ConditionalExpr(trimmed, tag_type), loc)

ParseConditionalTag(trimmed, loc) ==
    ConditionalTyped(trimmed, ConditionalTagType(trimmed), loc)

ForTagResult(trimmed, found) ==
    IF ~found.ok THEN ErrBlock(found.error)
    ELSE OkBlock(ForBlock(found.targets,
            <<"(", "(">> \o Join(found.targets, <<",", " ">>) \o <<")", " ">>
                \o trimmed \o <<")">>))

ParseForTag(trimmed) == ForTagResult(trimmed, find_for_targets(trimmed))

WhileSlow(e1, dofirst) ==
    IF EndsWith(e1, SP \o kw_slow)
    THEN OkBlock(WhileBlock(Trim(SubSeq(e1, 1, Len(e1) - 5)), dofirst, TRUE))
    ELSE OkBlock(WhileBlock(e1, dofirst, FALSE))

WhileDofirst(e0) ==
    IF StartsWith(e0, kw_dofirst \o SP)
    THEN WhileSlow(Trim(From(e0, 8)), TRUE)
    ELSE WhileSlow(e0, FALSE)

ParseWhileTag(trimmed) == WhileDofirst(Trim(From(trimmed, 6)))

\* the parts of a def tag that are no identifiers
BadParts(parts) == {k \in 1..Len(parts) : ~is_identifier(parts[k])}

DefChecked(parts, bad) ==
    IF parts = <<>>
    THEN ErrBlock(Error("InvalidDefBlockFunctionOrArgName", <<>>, <<>>, NoLoc))
    ELSE IF bad # {}
    THEN ErrBlock(Error("InvalidDefBlockFunctionOrArgName",
                        parts[CHOOSE k \in bad : \A j \in bad : k <= j], <<>>, NoLoc))
    ELSE OkBlock(DefBlock(parts[1], Tail(parts)))

DefParts(parts) == DefChecked(parts, BadParts(parts))

ParseDefTag(trimmed) == DefParts(split_whitespace(Trim(From(trimmed, 4))))

CaptureChecked(varname) ==
    IF ~is_identifier(varname)
    THEN ErrBlock(Error("InvalidCaptureBlockVariableName", varname, <<>>, NoLoc))
    ELSE OkBlock(CaptureBlock(varname))

ParseCaptureTag(trimmed) == CaptureChecked(Trim(From(trimmed, 8)))

\* parse_block_type after `let trimmed = unescaped.trim()`
ParseTrimmed(trimmed, loc) ==
    IF trimmed = <<>> \/ StartsWith(trimmed, kw_end)
    THEN OkBlock(EndBlock(IF StartsWith(trimmed, kw_end) THEN Trim(From(trimmed, 3)) ELSE <<>>))
    ELSE IF trimmed = kw_comment THEN OkBlock(CommentBlock)
    ELSE IF IsConditionalTag(trimmed) THEN ParseConditionalTag(trimmed, loc)
    ELSE IF IsForTag(trimmed) THEN ParseForTag(trimmed)
    ELSE IF StartsWith(trimmed, kw_while \o SP) THEN ParseWhileTag(trimmed)
    ELSE IF StartsWith(trimmed, kw_def \o SP) THEN ParseDefTag(trimmed)
    ELSE IF StartsWith(trimmed, kw_capture \o SP) THEN ParseCaptureTag(trimmed)
    ELSE ErrBlock(Error("UnknownTag", trimmed, <<>>, loc))

parse_block_type(s, loc) == ParseTrimmed(Trim(unescape_str_cow(s)), loc)

----------------------------------------------------------------------------
(* Tree nodes and the token queue *)

\* Node::Root / Text / Code / Comment / Block in one shape: children and
\* block_type are empty where the variant has none.
Node(type, s, loc, children, bt) ==
    [type |-> type, src |-> s, loc |-> loc, children |-> children, block_type |-> bt]

RootNode == Node("Root", <<>>, NoLoc, <<>>, NoBlockType)
TextNode(s) == Node("Text", s, NoLoc, <<>>, NoBlockType)
CodeNode(s, loc) == Node("Code", s, loc, <<>>, NoBlockType)
\* BlockNode::new
BlockNode(s, loc, bt) == Node("Block", s, loc, <<>>, bt)

prune_tokens(tokens) ==
    LET Keep(tok) == IF tok.kind = "Text" THEN tok.src # <<>> ELSE TRUE
    IN SelectSeq(tokens, Keep)

NoToken == Token("None", <<>>, NoLoc)

\* TokenQueue::next: the popped token (or none) and what is left.  `pos` is
\* the number of tokens taken from the iterator, `queue` the push-back Vec.
TokenQueueNext(p) ==
    IF p.queue # <<>>
    THEN [has |-> TRUE, token |-> p.queue[Len(p.queue)], pos |-> p.pos,
          queue |-> SubSeq(p.queue, 1, Len(p.queue) - 1)]
    ELSE IF p.pos < Len(p.tokens)
    THEN [has |-> TRUE, token |-> p.tokens[p.pos + 1], pos |-> p.pos + 1, queue |-> p.queue]
    ELSE [has |-> FALSE, token |-> NoToken, pos |-> p.pos, queue |-> p.queue]

put_back_Twice(queue, token) == Append(Append(queue, token), token)

\* TokenQueue::put_back
put_back(queue, token) == Append(queue, token)

\* StopReason::EndOfTokens / EndTag(token) / Continuation(token)
StopReason(kind, token) == [kind |-> kind, token |-> token]

\* the caller's `if let EndTag .. put_back / else if let Continuation .. put_back`
PutBackStopped(queue, stop) ==
    IF stop.kind \in {"EndTag", "Continuation"} THEN put_back(queue, stop.token) ELSE queue

\* the kind name an end tag must carry to close a block of the given BlockType
EndTagMatches(block_type, tag_to_end) ==
    CASE block_type.kind = "Conditional" -> tag_to_end = kw_if
      [] block_type.kind = "For" -> tag_to_end = kw_for
      [] block_type.kind = "While" -> tag_to_end = kw_while
      [] block_type.kind = "Def" -> tag_to_end = kw_def
      [] block_type.kind = "Capture" -> tag_to_end = kw_capture
      [] block_type.kind = "Comment" -> tag_to_end = kw_comment
      [] OTHER -> FALSE

IsContinuationTag(bt) == bt.kind = "Conditional" /\ bt.tag_type \in {"Elif", "Else"}

----------------------------------------------------------------------------
(* The builders.  A frame is one active call of build_tree,                 *)
(* build_conditional_chain, build_tree_for_block_with_reason or             *)
(* build_tree_for_block.  `node` is the node the call builds (the callee     *)
(* works on the caller's node through &mut: the model hands it back on       *)
(* return); pc is "loop" at the head of the call's token loop, "wait" while  *)
(* a callee runs, "ret" when the call returns with `stop`.                   *)
(* build_tree is only ever called by parse, with the Root node as parent     *)
(* (line 1089): its arms for a Block parent cannot run and are left out.     *)

Frame(fn, node, fpc, stop) == [fn |-> fn, node |-> node, pc |-> fpc, stop |-> stop]

NoStop == StopReason("EndOfTokens", NoToken)

\* parse, after lex and prune_tokens: the queue is fresh, build_tree(root) starts
ParseInit(tokens) == [
    state |-> "running",
    tokens |-> tokens,
    pos |-> 0,
    queue |-> <<>>,
    stack |-> <<Frame("build_tree", RootNode, "loop", NoStop)>>,
    tree |-> RootNode,
    error |-> NoError ]

ParseFail(p, e) == [p EXCEPT !.state = "err", !.error = e, !.stack = <<>>]

\* the frames of a call of build_conditional_chain(block_node): it starts by
\* calling build_tree_for_block_with_reason on the same node
CallChain(block_node) ==
    <<Frame("build_conditional_chain", block_node, "wait", NoStop),
      Frame("build_tree_for_block_with_reason", block_node, "loop", NoStop)>>

\* the frames of a call of build_tree_for_block(block_node)
CallForBlock(block_node) ==
    <<Frame("build_tree_for_block", block_node, "wait", NoStop),
      Frame("build_tree_for_block_with_reason", block_node, "loop", NoStop)>>

\* the frame of a direct call of build_tree_for_block_with_reason(child_block)
CallWithReason(block_node) ==
    <<Frame("build_tree_for_block_with_reason", block_node, "loop", NoStop)>>

UnboundEnd_Untagged(end_block, loc) == Error("UnboundEndBlockTag", kw_end, <<>>, loc)

\* the error build_tree raises for an end tag met at the root
UnboundEnd(end_block, loc) ==
    Error("UnboundEndBlockTag", kw_end \o end_block.tag_to_end, <<>>, loc)

\* the stack with its top frame replaced by `frames`
OnTop(p, frames) == SubSeq(p.stack, 1, Len(p.stack) - 1) \o frames

Top(p) == p.stack[Len(p.stack)]

\* children.push(child) in the running builder
PushChild(p, child) ==
    [p EXCEPT !.stack = OnTop(p, <<[Top(p) EXCEPT !.node.children = Append(@, child)]>>)]

\* the running builder returns `stop`
Return(p, stop) ==
    [p EXCEPT !.stack = OnTop(p, <<[Top(p) EXCEPT !.pc = "ret", !.stop = stop]>>)]

\* the running builder calls another one
Call(p, frames) ==
    [p EXCEPT !.stack = OnTop(p, <<[Top(p) EXCEPT !.pc = "wait"]>> \o frames)]

RootBlockToken_KeepsEnd(p, token, bt) ==
    IF IsContinuationTag(bt)
    THEN ParseFail(p, Error("ElifOrElseWithoutIf", <<>>, <<>>, token.loc))
    ELSE IF bt.kind = "Conditional"
    THEN Call(p, CallChain(BlockNode(token.src, token.loc, bt)))
    ELSE Call(p, CallForBlock(BlockNode(token.src, token.loc, bt)))

\* build_tree (parent: the Root) has read a Block token of type bt
RootBlockToken(p, token, bt) ==
    IF bt.kind = "End"
    THEN ParseFail(p, UnboundEnd(bt, token.loc))
    ELSE IF IsContinuationTag(bt)
    THEN ParseFail(p, Error("ElifOrElseWithoutIf", <<>>, <<>>, token.loc))
    ELSE IF bt.kind = "Conditional"
    THEN Call(p, CallChain(BlockNode(token.src, token.loc, bt)))
    ELSE Call(p, CallForBlock(BlockNode(token.src, token.loc, bt)))

matches_current_Any(block_type, end_block) == TRUE

\* whether an end tag closes the block the running builder builds
matches_current(block_type, end_block) ==
    IF end_block.tag_to_end = <<>> THEN TRUE
    ELSE EndTagMatches(block_type, end_block.tag_to_end)

InnerBlockToken_KeepsContinuation(p, token, bt) ==
    IF bt.kind = "End"
    THEN IF matches_current(Top(p).node.block_type, bt)
         THEN Return(p, NoStop)
         ELSE Return(p, StopReason("EndTag", token))
    ELSE IF bt.kind = "Conditional"
    THEN Call(p, CallChain(BlockNode(token.src, token.loc, bt)))
    ELSE Call(p, CallWithReason(BlockNode(token.src, token.loc, bt)))

\* build_tree_for_block_with_reason has read a Block token of type bt
InnerBlockToken(p, token, bt) ==
    IF bt.kind = "End"
    THEN IF matches_current(Top(p).node.block_type, bt)
         THEN Return(p, NoStop)
         ELSE Return(p, StopReason("EndTag", token))
    ELSE IF IsContinuationTag(bt)
    THEN Return(p, StopReason("Continuation", token))
    ELSE IF bt.kind = "Conditional"
    THEN Call(p, CallChain(BlockNode(token.src, token.loc, bt)))
    ELSE Call(p, CallWithReason(BlockNode(token.src, token.loc, bt)))

\* the running builder has read a Block token: `parse_block_type(src, loc)?`
BlockToken(p, token, parsed) ==
    IF ~parsed.ok THEN ParseFail(p, parsed.error)
    ELSE IF Top(p).fn = "build_tree" THEN RootBlockToken(p, token, parsed.block_type)
    ELSE InnerBlockToken(p, token, parsed.block_type)

CommentIgnored_AsText(p, token) == PushChild(p, TextNode(token.src))

\* Token::Comment { .. } => {}: comments are ignored
CommentIgnored(p, token) == p

\* the running builder has read `token`
ReadToken(p, token) ==
    IF token.kind = "Text" THEN PushChild(p, TextNode(token.src))
    ELSE IF token.kind = "Code" THEN PushChild(p, CodeNode(token.src, token.loc))
    ELSE IF token.kind = "Comment" THEN CommentIgnored(p, token)
    ELSE BlockToken(p, token, parse_block_type(token.src, token.loc))

AfterNext_Unclosed(p, nx) ==
    IF ~nx.has
    THEN IF Top(p).fn = "build_tree"
         THEN [p EXCEPT !.state = "ok", !.tree = Top(p).node, !.stack = <<>>]
         ELSE ParseFail(p, Error("UnclosedTag", Top(p).node.src, <<>>, Top(p).node.loc))
    ELSE ReadToken([p EXCEPT !.pos = nx.pos, !.queue = nx.queue], nx.token)

\* `while let Some(token) = tokens.next()` and what follows the loop
AfterNext(p, nx) ==
    IF ~nx.has
    THEN IF Top(p).fn = "build_tree"
         THEN [p EXCEPT !.state = "ok", !.tree = Top(p).node, !.stack = <<>>]
         ELSE Return(p, NoStop)
    ELSE ReadToken([p EXCEPT !.pos = nx.pos, !.queue = nx.queue], nx.token)

\* the top frame reads the next token: one iteration of its token loop
TokenStep(p) == AfterNext(p, TokenQueueNext(p))

\* the caller takes over the node its callee worked on, and returns
CallerReturns(p, caller, callee) ==
    [p EXCEPT !.stack = SubSeq(p.stack, 1, Len(p.stack) - 2) \o
                          <<[caller EXCEPT !.node = callee.node, !.pc = "ret"]>>]

CallerPushes_First(p, caller, callee) ==
    [p EXCEPT !.stack = SubSeq(p.stack, 1, Len(p.stack) - 2) \o
                          <<[caller EXCEPT !.node.children = <<callee.node>> \o @,
                                           !.pc = "loop"]>>]

\* the caller pushes the block its callee built, and reads on
CallerPushes(p, caller, callee) ==
    [p EXCEPT !.stack = SubSeq(p.stack, 1, Len(p.stack) - 2) \o
                          <<[caller EXCEPT !.node.children = Append(@, callee.node),
                                           !.pc = "loop"]>>]

\* build_conditional_chain got StopReason::Continuation(token)
ChainContinues(p, caller, callee, token, parsed) ==
    IF token.kind # "Block" THEN CallerReturns(p, caller, callee)
    ELSE IF ~parsed.ok THEN ParseFail(p, parsed.error)
    ELSE IF IsContinuationTag(parsed.block_type)
    THEN [p EXCEPT !.stack = SubSeq(p.stack, 1, Len(p.stack) - 2)
                \o <<[caller EXCEPT !.node = callee.node, !.pc = "wait"]>>
                \o CallChain(BlockNode(token.src, token.loc, parsed.block_type))]
    ELSE CallerReturns(p, caller, callee)

\* the callee has returned: its caller goes on after the call
AfterCall(p, caller, callee) ==
    CASE caller.fn = "build_tree" ->
            CallerPushes(p, caller, callee)
      [] caller.fn = "build_tree_for_block" ->
            CallerReturns([p EXCEPT !.queue = PutBackStopped(p.queue, callee.stop)],
                          caller, callee)
      [] caller.fn = "build_conditional_chain"
             /\ callee.fn = "build_tree_for_block_with_reason" ->
            IF callee.stop.kind = "Continuation"
            THEN ChainContinues(p, caller, callee, callee.stop.token,
                    parse_block_type(callee.stop.token.src, callee.stop.token.loc))
            ELSE IF callee.stop.kind = "EndTag"
            THEN CallerReturns([p EXCEPT !.queue = put_back(p.queue, callee.stop.token)],
                               caller, callee)
            ELSE CallerReturns(p, caller, callee)
      [] caller.fn = "build_conditional_chain"
             /\ callee.fn = "build_conditional_chain" ->
            \* main_cond.continuation = Some(Box::new(continuation_block))
            [p EXCEPT !.stack = SubSeq(p.stack, 1, Len(p.stack) - 2) \o
                <<[caller EXCEPT !.node.block_type.continuation = <<callee.node>>,
                                 !.pc = "ret"]>>]
      [] caller.fn = "build_tree_for_block_with_reason"
             /\ callee.fn = "build_conditional_chain" ->
            CallerPushes(p, caller, callee)
      [] caller.fn = "build_tree_for_block_with_reason"
             /\ callee.fn = "build_tree_for_block_with_reason" ->
            CallerPushes([p EXCEPT !.queue = PutBackStopped(p.queue, callee.stop)],
                         caller, callee)

\* the top frame returns to the frame below it
ReturnStep(p) == AfterCall(p, p.stack[Len(p.stack) - 1], p.stack[Len(p.stack)])

\* one step of the running parser
ParseStep(p) == IF Top(p).pc = "ret" THEN ReturnStep(p) ELSE TokenStep(p)

RECURSIVE ParseRun(_)
ParseRun(p) == IF p.state # "running" THEN p ELSE ParseRun(ParseStep(p))

\* parse(src) from the result of lex: Ok(tree) or Err(error)
ParseLexed(lexed) ==
    IF lexed.result = "err"
    THEN [ParseInit(<<>>) EXCEPT !.state = "err", !.error = lexed.error, !.stack = <<>>]
    ELSE ParseInit(prune_tokens(lexed.tokens))

parse(s) == ParseRun(ParseLexed(lex(s)))

----------------------------------------------------------------------------
(* The lexer as a state machine: one action per iteration of the scanning   *)
(* loop, by the state the lexer is in, and one for the end of input.        *)

\* the parser and the evaluator before they start
PsIdle == [state |-> "idle"]
ExIdle == [state |-> "idle"]

LexAlphabet == {"{", "}", "#", "%", "a", "\n"}

CommentPieces == {COMMENT_OPEN, COMMENT_CLOSE, <<"a">>}

LexSources ==
    SeqsUpTo(LexAlphabet, MaxLen) \cup {Flatten(p) : p \in SeqsUpTo(CommentPieces, MaxPieces)}

InitLex ==
    /\ src \in LexSources
    /\ pc = "lex"
    /\ lx = LexInit
    /\ ps = PsIdle
    /\ ex = ExIdle

LexScanning(kind) ==
    /\ pc = "lex"
    /\ lx.result = "running"
    /\ lx.i < Len(src)
    /\ lx.current_token.kind = kind

LexOutside ==
    /\ LexScanning("None")
    /\ lx' = LexStep(src, lx)
    /\ UNCHANGED <<src, pc, ps, ex>>

LexInText ==
    /\ LexScanning("Text")
    /\ lx' = LexStep(src, lx)
    /\ UNCHANGED <<src, pc, ps, ex>>

LexInCode ==
    /\ LexScanning("Code")
    /\ lx' = LexStep(src, lx)
    /\ UNCHANGED <<src, pc, ps, ex>>

LexInComment ==
    /\ LexScanning("Comment")
    /\ lx' = LexStep(src, lx)
    /\ UNCHANGED <<src, pc, ps, ex>>

LexInBlock ==
    /\ LexScanning("Block")
    /\ lx' = LexStep(src, lx)
    /\ UNCHANGED <<src, pc, ps, ex>>

LexEndOfInput ==
    /\ pc = "lex"
    /\ lx.result = "running"
    /\ lx.i >= Len(src)
    /\ lx' = LexFinish(src, lx)
    /\ UNCHANGED <<src, pc, ps, ex>>

NextLex ==
    \/ LexOutside
    \/ LexInText
    \/ LexInCode
    \/ LexInComment
    \/ LexInBlock
    \/ LexEndOfInput

SpecLex == InitLex /\ [][NextLex]_vars

----------------------------------------------------------------------------
(* The parser as a state machine: parse lexes and prunes, then the builders *)
(* run, one action per token the running builder reads, by what the token   *)
(* is, and one for a builder returning to its caller.                       *)

\* `{% body %}`
BlockTag(body) == BLOCK_OPEN \o SP \o body \o SP \o BLOCK_CLOSE

tag_if == BlockTag(kw_if \o SP \o <<"x">>)
tag_elif == BlockTag(kw_elif \o SP \o <<"y">>)
tag_else == BlockTag(kw_else)
tag_for == BlockTag(kw_for \o SP \o <<"x">> \o SP \o kw_in \o SP \o <<"x", "s">>)
tag_end == BlockTag(kw_end)
tag_endif == BlockTag(kw_end \o kw_if)
tag_endfor == BlockTag(kw_end \o kw_for)
text_t == <<"t">>
code_x == CODE_OPEN \o <<"x">> \o CODE_CLOSE
comment_c == COMMENT_OPEN \o <<"c">> \o COMMENT_CLOSE

\* the pieces templates are built from, in every order
StructPieces ==
    {text_t, code_x, comment_c, tag_if, tag_elif, tag_else, tag_for,
     tag_end, tag_endif, tag_endfor}

\* block tags of every kind, well-formed and not
OtherTags ==
    { BLOCK_OPEN \o BLOCK_CLOSE,
      BlockTag(kw_if),
      BlockTag(kw_elif),
      BlockTag(kw_else \o SP \o <<"y">>),
      BlockTag(kw_else \o SP \o kw_True),
      BlockTag(kw_for),
      BlockTag(kw_for \o SP \o <<"x">>),
      BlockTag(kw_for \o SP \o <<"x">> \o SP \o <<"y">>),
      BlockTag(kw_for \o SP \o kw_in \o SP \o <<"x", "s">>),
      BlockTag(kw_for \o SP \o <<"b", ",", "a">> \o SP \o kw_in \o SP \o <<"p", "s">>),
      BlockTag(kw_while \o SP \o <<"w">>),
      BlockTag(kw_while \o SP \o kw_dofirst \o SP \o <<"w">> \o SP \o kw_slow),
      BlockTag(kw_def \o SP \o <<"f">> \o SP \o <<"a">>),
      BlockTag(kw_def \o SP \o <<"f">> \o SP \o <<"a">> \o SP \o <<"a">>),
      BlockTag(kw_def \o SP \o <<"f">> \o SP \o <<"1">>),
      BlockTag(kw_capture \o SP \o <<"v">>),
      BlockTag(kw_capture \o SP \o <<"1">>),
      BlockTag(kw_comment),
      BlockTag(kw_end \o kw_while),
      BlockTag(kw_end \o kw_def),
      BlockTag(kw_end \o kw_capture),
      BlockTag(kw_end \o kw_comment),
      BlockTag(<<"z">>),
      BLOCK_OPEN \o <<"\\", "{">> \o BLOCK_CLOSE,
      BLOCK_OPEN \o kw_if,
      BLOCK_OPEN \o <<"\n">> \o BLOCK_CLOSE }

\* what stands before and behind such a tag
Prefixes == {<<>>, tag_if, tag_for, tag_if \o tag_for, tag_for \o tag_if, tag_if \o tag_else}
Suffixes == {<<>>, text_t \o tag_end, tag_else \o tag_end}

\* templates where a tag goes back to the builders of the blocks around it,
\* with texts and codes on both sides of it
ElseThroughFor == tag_if \o tag_for \o text_t \o tag_else \o code_x \o tag_end \o text_t
EndifThroughFor == code_x \o tag_if \o tag_for \o text_t \o tag_endif \o code_x

ParseSources ==
    {Flatten(p) : p \in SeqsUpTo(StructPieces, MaxTags)}
        \cup {a \o b \o c : a \in Prefixes, b \in OtherTags \cup StructPieces, c \in Suffixes}
        \cup {ElseThroughFor, EndifThroughFor}

InitParse ==
    /\ src \in ParseSources
    /\ pc = "parse"
    /\ lx = LexInit
    /\ ps = PsIdle
    /\ ex = ExIdle

\* let tokens = lex(src)?; let tokens = prune_tokens(tokens); build_tree starts
ParseLex ==
    /\ pc = "parse"
    /\ ps = PsIdle
    /\ lx' = lex(src)
    /\ ps' = ParseLexed(lx')
    /\ UNCHANGED <<src, pc, ex>>

\* a builder is at the head of its token loop and reads a token of `kind`
Reading(kind) ==
    /\ pc = "parse" /\ ps # PsIdle /\ ps.state = "running"
    /\ Top(ps).pc = "loop"
    /\ TokenQueueNext(ps).token.kind = kind

\* the block tag the builder is about to read
TagRead == parse_block_type(TokenQueueNext(ps).token.src, TokenQueueNext(ps).token.loc)

ParseText ==
    /\ Reading("Text")
    /\ ps' = ParseStep(ps)
    /\ UNCHANGED <<src, pc, lx, ex>>

ParseCode ==
    /\ Reading("Code")
    /\ ps' = ParseStep(ps)
    /\ UNCHANGED <<src, pc, lx, ex>>

ParseComment ==
    /\ Reading("Comment")
    /\ ps' = ParseStep(ps)
    /\ UNCHANGED <<src, pc, lx, ex>>

ParseBadTag ==
    /\ Reading("Block")
    /\ ~TagRead.ok
    /\ ps' = ParseStep(ps)
    /\ UNCHANGED <<src, pc, lx, ex>>

ParseEndTag ==
    /\ Reading("Block")
    /\ TagRead.block_type.kind = "End"
    /\ ps' = ParseStep(ps)
    /\ UNCHANGED <<src, pc, lx, ex>>

ParseContinuationTag ==
    /\ Reading("Block")
    /\ IsContinuationTag(TagRead.block_type)
    /\ ps' = ParseStep(ps)
    /\ UNCHANGED <<src, pc, lx, ex>>

ParseOpenBlock ==
    /\ Reading("Block")
    /\ TagRead.block_type.kind \in {"Conditional", "For", "While", "Def", "Capture", "Comment"}
    /\ ~IsContinuationTag(TagRead.block_type)
    /\ ps' = ParseStep(ps)
    /\ UNCHANGED <<src, pc, lx, ex>>

\* tokens.next() is None
ParseEndOfTokens ==
    /\ Reading("None")
    /\ ps' = ParseStep(ps)
    /\ UNCHANGED <<src, pc, lx, ex>>

ParseReturn ==
    /\ pc = "parse" /\ ps # PsIdle /\ ps.state = "running"
    /\ Top(ps).pc = "ret"
    /\ ps' = ParseStep(ps)
    /\ UNCHANGED <<src, pc, lx, ex>>

NextParse ==
    \/ ParseLex
    \/ ParseText
    \/ ParseCode
    \/ ParseComment
    \/ ParseBadTag
    \/ ParseEndTag
    \/ ParseContinuationTag
    \/ ParseOpenBlock
    \/ ParseEndOfTokens
    \/ ParseReturn

SpecParse == InitParse /\ [][NextParse]_vars

----------------------------------------------------------------------------
(* Claims about the lexer *)

\* a token as it stood in the source: Text verbatim, the others between
\* their opener and closer
Rewrap(tok) ==
    CASE tok.kind = "Text" -> tok.src
      [] tok.kind = "Code" -> CODE_OPEN \o tok.src \o CODE_CLOSE
      [] tok.kind = "Comment" -> COMMENT_OPEN \o tok.src \o COMMENT_CLOSE
      [] tok.kind = "Block" -> BLOCK_OPEN \o tok.src \o BLOCK_CLOSE

RewrapAll(toks) == Flatten([k \in 1..Len(toks) |-> Rewrap(toks[k])])

\* the character pair the lexer is looking at
AtPair(delim) ==
    /\ lx.result = "running"
    /\ lx.i + 1 < Len(src)
    /\ src[lx.i + 1] = delim[1]
    /\ src[lx.i + 2] = delim[2]

InComment == lx.current_token.kind = "Comment"

CommentEmitted ==
    /\ Len(lx'.tokens) = Len(lx.tokens) + 1
    /\ lx'.tokens[Len(lx'.tokens)].kind = "Comment"

\* `{#a{#a#}a#}`: a comment that holds one properly nested comment
NestedComment ==
    Flatten(<<COMMENT_OPEN, <<"a">>, COMMENT_OPEN, <<"a">>, COMMENT_CLOSE, <<"a">>, COMMENT_CLOSE>>)

NestedCommentBody == SubSeq(NestedComment, 3, Len(NestedComment) - 2)

C4_Step ==
    /\ ~InComment => lx.comment_tag_depth = 0
    /\ lx'.current_token.kind # "Comment" => lx'.comment_tag_depth = 0
    /\ (~InComment /\ lx'.current_token.kind = "Comment") => lx'.comment_tag_depth = 1
    /\ (InComment /\ AtPair(COMMENT_OPEN)) => lx'.comment_tag_depth = lx.comment_tag_depth + 1
    /\ (InComment /\ AtPair(COMMENT_CLOSE)) => lx'.comment_tag_depth = lx.comment_tag_depth - 1
    /\ (InComment /\ ~AtPair(COMMENT_OPEN) /\ ~AtPair(COMMENT_CLOSE))
           => lx'.comment_tag_depth = lx.comment_tag_depth
    /\ CommentEmitted <=> (InComment /\ lx'.comment_tag_depth = 0)
    /\ (src = NestedComment /\ lx'.result = "ok")
           => lx'.tokens = <<Token("Comment", NestedCommentBody, Location(1, 0))>>

\* C4: the comment depth counter is 0 outside a comment and 1 right after a
\* comment opener; inside a comment each `{#` raises it by one and each `#}`
\* lowers it by one; the Comment token is emitted exactly by the step that
\* brings it back to 0; the nested comment `{#a{#a#}a#}` lexes to exactly one
\* Comment token, with no leftover Text.
C4_CommentDepth == [][C4_Step]_vars

\* the nested comment has been lexed to one token, through depth 2
C4_Witness ==
    /\ src = NestedComment
    /\ lx.result = "ok"
    /\ Len(lx.tokens) = 1
    /\ lx.tokens[1].kind = "Comment"

\* C5: when lex succeeds, the tokens put back between their delimiters and
\* concatenated in order are the source.
C5_LexPreservesBytes == (pc = "lex" /\ lx.result = "ok") => RewrapAll(lx.tokens) = src

\* a successful lex that returned a Text token and a tag token
C5_Witness ==
    /\ pc = "lex"
    /\ lx.result = "ok"
    /\ \E j, k \in 1..Len(lx.tokens) : lx.tokens[j].kind = "Text" /\ lx.tokens[k].kind = "Code"

----------------------------------------------------------------------------
(* Claims about block tags and end tags *)

\* the token the running builder is about to read
TokenRead == TokenQueueNext(ps).token

\* the parse has just failed with this error
FailsWith(e) == ps'.state = "err" /\ ps'.error = e

\* the words of the tag the builder is about to read
TagWords == split_whitespace(TokenRead.src)

C7_Step ==
    \A kw \in {kw_if, kw_elif} :
        (Reading("Block") /\ TagWords = <<kw>>)
            => FailsWith(Error("ExpressionMissing", kw, <<>>, TokenRead.loc))

\* C7: reading an `if` or `elif` tag that has no expression makes the parse
\* fail with ExpressionMissing, naming the tag and its Location.
C7_ExpressionMissing == [][C7_Step]_vars

C8_Step ==
    (/\ Reading("Block")
     /\ Len(TagWords) > 1
     /\ TagWords[1] = kw_else
     /\ Tail(TagWords) # <<kw_True>>)
        => FailsWith(Error("ExpressionProhibited", kw_else, <<>>, TokenRead.loc))

\* C8: reading an `else` tag that is followed by an expression other than
\* `True` makes the parse fail with ExpressionProhibited, naming `else` and
\* the tag's Location.
C8_ExpressionProhibited == [][C8_Step]_vars

\* a for tag no target can be taken from: nothing stands between `for` and
\* the first `in`, or there is no `in`
NoForTargets(words) ==
    /\ words # <<>>
    /\ words[1] = kw_for
    /\ \/ ~(\E k \in 2..Len(words) : words[k] = kw_in)
       \/ (Len(words) > 1 /\ words[2] = kw_in)

C9_Step ==
    (Reading("Block") /\ NoForTargets(TagWords))
        => FailsWith(Error("IncorrectForTag", Trim(TokenRead.src), <<>>, NoLoc))

\* C9: reading a `for` tag from which no target can be taken, the bare
\* `{% for %}` included, makes the parse fail with IncorrectForTag carrying
\* the tag body.
C9_IncorrectForTag == [][C9_Step]_vars

\* A specific end tag comes to build_tree through the push-back queue exactly
\* when it was met inside an open block and neither that block nor a block
\* around it has the kind it names.
C10_Step ==
    (/\ Reading("Block")
     /\ Top(ps).fn = "build_tree"
     /\ ps.queue # <<>>
     /\ TagRead.block_type.kind = "End"
     /\ TagRead.block_type.tag_to_end # <<>>)
        => /\ ps'.state = "err"
           /\ ps'.error.kind = "MismatchingEndBlockTag"
           /\ ps'.error.b = kw_end \o TagRead.block_type.tag_to_end
           /\ ps'.error.line = TokenRead.loc.line
           /\ ps'.error.column = TokenRead.loc.column

\* C10: a specific end tag met inside an open block of another kind, with no
\* open block of the kind it names around it, makes the parse fail with
\* MismatchingEndBlockTag carrying the found tag and the Location.
C10_MismatchingEndBlockTag == [][C10_Step]_vars

----------------------------------------------------------------------------
(* The host.  exec_tree hands expressions and statements to the Python       *)
(* interpreter behind pyo3; the interpreter is not part of lib.rs.  It is    *)
(* modelled on the fragment of Python the templates of this model are        *)
(* written in, with the tokens of a line separated by blanks:                *)
(*     atom        True | False | None | a decimal literal | a name          *)
(*     expression  atom | atom < atom | atom + atom | name ( atom , .. )     *)
(*     statement   nothing | name = expression | expression                  *)
(*     generator   ((y1, .., yn) for v1,..,vm in atom)                       *)
(* over None, bool, int, str, list, tuple and function objects.  Anything    *)
(* else is answered with SyntaxError, as Python answers for the code the     *)
(* templates of the model hold outside the fragment.  No name of the model   *)
(* is a builtin of Python.  A `#` starts a comment that runs to the end of   *)
(* the code (the fragment has no string literals and no line breaks).        *)

Range(seq) == {seq[k] : k \in DOMAIN seq}

\* a Python object: its type, its number, its characters, its items
PyObject(t, n, s, l) == [t |-> t, n |-> n, s |-> s, l |-> l]

PyNone == PyObject("NoneType", 0, <<>>, <<>>)
PyBool(b) == PyObject("bool", IF b THEN 1 ELSE 0, <<>>, <<>>)
PyInt(n) == PyObject("int", n, <<>>, <<>>)
PyStr(s) == PyObject("str", 0, s, <<>>)
PyList(l) == PyObject("list", 0, <<>>, l)
PyTuple(l) == PyObject("tuple", 0, <<>>, l)
PyFunction(name, arity) == PyObject("function", arity, name, <<>>)

kw_False == <<"F", "a", "l", "s", "e">>
kw_None == <<"N", "o", "n", "e">>
kw_and == <<"a", "n", "d">>
kw_as == <<"a", "s">>
kw_is == <<"i", "s">>
kw_not == <<"n", "o", "t">>
kw_or == <<"o", "r">>

\* the reserved words of Python that can be spelled in the model's alphabet
PyKeywords ==
    {kw_True, kw_False, kw_None, kw_and, kw_as, kw_def, kw_elif, kw_else,
     kw_for, kw_if, kw_in, kw_is, kw_not, kw_or, kw_while}

Digits == <<"0", "1", "2", "3", "4", "5", "6", "7", "8", "9">>

DigitValue(c) == (CHOOSE k \in 1..10 : Digits[k] = c) - 1

\* str(n) of a natural number
RECURSIVE NatStr(_)
NatStr(n) ==
    IF n < 10 THEN <<Digits[n + 1]>>
    ELSE NatStr(n \div 10) \o <<Digits[(n % 10) + 1]>>

IntStr(n) == IF n < 0 THEN <<"-">> \o NatStr(0 - n) ELSE NatStr(n)

\* int(w) of a string of digits
RECURSIVE ParseNat(_)
ParseNat(w) ==
    IF w = <<>> THEN 0
    ELSE 10 * ParseNat(SubSeq(w, 1, Len(w) - 1)) + DigitValue(w[Len(w)])

\* repr(v) and str(v); a function is shown without its address
RECURSIVE PyRepr(_)
RECURSIVE PyReprs(_)
PyRepr(v) ==
    CASE v.t = "NoneType" -> kw_None
      [] v.t = "bool" -> IF v.n = 1 THEN kw_True ELSE kw_False
      [] v.t = "int" -> IntStr(v.n)
      [] v.t = "str" -> <<"'">> \o v.s \o <<"'">>
      [] v.t = "list" -> <<"[">> \o PyReprs(v.l) \o <<"]">>
      [] v.t = "tuple" ->
            <<"(">> \o PyReprs(v.l) \o (IF Len(v.l) = 1 THEN <<",">> ELSE <<>>) \o <<")">>
      [] OTHER -> <<"<", "f", "u", "n", "c", "t", "i", "o", "n", " ">> \o v.s \o <<">">>

PyReprs(l) ==
    IF l = <<>> THEN <<>>
    ELSE IF Len(l) = 1 THEN PyRepr(l[1])
    ELSE PyRepr(l[1]) \o <<",", " ">> \o PyReprs(Tail(l))

\* result.str()
PyStrOf(v) == IF v.t = "str" THEN v.s ELSE PyRepr(v)

\* result.is_truthy()
is_truthy(v) ==
    CASE v.t = "NoneType" -> FALSE
      [] v.t \in {"bool", "int"} -> v.n # 0
      [] v.t = "str" -> v.s # <<>>
      [] v.t \in {"list", "tuple"} -> v.l # <<>>
      [] OTHER -> TRUE

\* iter(v) succeeds
Iterable(v) == v.t \in {"list", "tuple", "str"}

\* list(v) of an iterable
Items(v) == IF v.t = "str" THEN [k \in 1..Len(v.s) |-> PyStr(<<v.s[k]>>)] ELSE v.l

(* globals: the dict of the interpreter, a set of bindings with one binding  *)
(* to a name.                                                                *)

Binding(name, value) == [name |-> name, value |-> value]

\* PyDict::contains
has_global(g, name) == \E b \in g : b.name = name

\* PyDict::get_item of a bound name
get_item(g, name) == (CHOOSE b \in g : b.name = name).value

\* PyDict::set_item
set_item(g, name, value) == {b \in g : b.name # name} \cup {Binding(name, value)}

\* PyDict::del_item
del_item(g, name) == {b \in g : b.name # name}

\* the outcome of py.eval / py.run: Ok(value) with the globals it leaves, or
\* Err(exception)
PyOk(value, g) == [ok |-> TRUE, value |-> value, globals |-> g, exc |-> "none"]
PyErr(exc, g) == [ok |-> FALSE, value |-> PyNone, globals |-> g, exc |-> exc]

\* PypageError::PythonError(err)
PythonError(exc) == Error("PythonError", <<exc>>, <<>>, NoLoc)

IsIntLiteral(w) ==
    /\ w # <<>>
    /\ \A k \in 1..Len(w) : w[k] \in Range(Digits)
    /\ (Len(w) = 1 \/ w[1] # "0")

IsName(w) == is_identifier(w) /\ w \notin PyKeywords

IsAtom(w) == w \in {kw_True, kw_False, kw_None} \/ IsIntLiteral(w) \/ IsName(w)

BinaryOperators == {"<", "+"}

\* the arguments of a call: atoms with commas between them, or nothing
IsArgList(ws) ==
    \/ ws = <<>>
    \/ /\ Len(ws) % 2 = 1
       /\ \A k \in 1..Len(ws) : IF k % 2 = 1 THEN IsAtom(ws[k]) ELSE ws[k] = <<",">>

IsCall(words) ==
    /\ Len(words) >= 3
    /\ IsName(words[1])
    /\ words[2] = <<"(">>
    /\ words[Len(words)] = <<")">>
    /\ IsArgList(SubSeq(words, 3, Len(words) - 1))

\* an atom, or two atoms with an operator between them
IsOperation(words) ==
    \/ (Len(words) = 1 /\ IsAtom(words[1]))
    \/ /\ Len(words) = 3
       /\ IsAtom(words[1]) /\ IsAtom(words[3])
       /\ Len(words[2]) = 1 /\ words[2][1] \in BinaryOperators

\* `( name := operation )`: an expression that binds the name to its value
IsNamedExpr(words) ==
    /\ Len(words) >= 5
    /\ words[1] = <<"(">>
    /\ IsName(words[2])
    /\ words[3] = <<":", "=">>
    /\ words[Len(words)] = <<")">>
    /\ IsOperation(SubSeq(words, 4, Len(words) - 1))

IsExpression(words) == IsOperation(words) \/ IsCall(words) \/ IsNamedExpr(words)

IsAssignment(words) ==
    /\ Len(words) >= 3
    /\ IsName(words[1])
    /\ words[2] = <<"=">>
    /\ IsExpression(SubSeq(words, 3, Len(words)))

EvalAtom(w, g) ==
    IF w = kw_True THEN PyOk(PyBool(TRUE), g)
    ELSE IF w = kw_False THEN PyOk(PyBool(FALSE), g)
    ELSE IF w = kw_None THEN PyOk(PyNone, g)
    ELSE IF IsIntLiteral(w) THEN PyOk(PyInt(ParseNat(w)), g)
    ELSE IF has_global(g, w) THEN PyOk(get_item(g, w), g)
    ELSE PyErr("NameError", g)

Numeric(v) == v.t \in {"int", "bool"}

\* a < b and a + b of two evaluated atoms, left operand first
EvalBinary(op, a, b, g) ==
    IF ~a.ok THEN a
    ELSE IF ~b.ok THEN b
    ELSE IF Numeric(a.value) /\ Numeric(b.value)
         THEN PyOk(IF op = "<" THEN PyBool(a.value.n < b.value.n)
                   ELSE PyInt(a.value.n + b.value.n), g)
    ELSE IF a.value.t = "str" /\ b.value.t = "str"
         THEN PyOk(IF op = "<" THEN PyBool(StrLess(a.value.s, b.value.s))
                   ELSE PyStr(a.value.s \o b.value.s), g)
    ELSE PyErr("TypeError", g)

\* the function a Def block defines, called with `found` arguments:
\* if len(args) != expected: raise ValueError(..); return ""
CallFunction(function, found, g) ==
    IF found # function.n THEN PyErr("ValueError", g) ELSE PyOk(PyStr(<<>>), g)

\* callee(args): the callee is evaluated, then the arguments from the left,
\* then the call is made
CallResult(callee, args, g) ==
    IF ~callee.ok THEN callee
    ELSE IF \E k \in 1..Len(args) : ~args[k].ok
         THEN args[CHOOSE k \in 1..Len(args) : ~args[k].ok /\ \A j \in 1..(k - 1) : args[j].ok]
    ELSE IF callee.value.t # "function" THEN PyErr("TypeError", g)
    ELSE CallFunction(callee.value, Len(args), g)

\* the evaluated arguments of a call whose argument list is ws
EvalArgs(ws, g) == [k \in 1..((Len(ws) + 1) \div 2) |-> EvalAtom(ws[2 * k - 1], g)]

EvalCall(words, g) ==
    CallResult(EvalAtom(words[1], g), EvalArgs(SubSeq(words, 3, Len(words) - 1), g), g)

EvalOperation(words, g) ==
    IF Len(words) = 1 THEN EvalAtom(words[1], g)
    ELSE EvalBinary(words[2][1], EvalAtom(words[1], g), EvalAtom(words[3], g), g)

\* the value of a named expression is bound in the globals, and is its value
EvalNamed(name, r) == IF r.ok THEN PyOk(r.value, set_item(r.globals, name, r.value)) ELSE r

EvalExpression(words, g) ==
    IF IsCall(words) THEN EvalCall(words, g)
    ELSE IF IsNamedExpr(words)
         THEN EvalNamed(words[2], EvalOperation(SubSeq(words, 4, Len(words) - 1), g))
    ELSE EvalOperation(words, g)

EvalWords(words, g) ==
    IF IsExpression(words) THEN EvalExpression(words, g) ELSE PyErr("SyntaxError", g)

\* the code before the first `#`
StripPyComment(code) ==
    IF \E k \in 1..Len(code) : code[k] = "#"
    THEN SubSeq(code, 1, (CHOOSE k \in 1..Len(code) :
                              code[k] = "#" /\ \A j \in 1..(k - 1) : code[j] # "#") - 1)
    ELSE code

\* py.eval(code, globals)
py_eval(code, g) == EvalWords(split_whitespace(StripPyComment(code)), g)

Assigned(name, r) ==
    IF r.ok THEN PyOk(PyNone, set_item(r.globals, name, r.value)) ELSE r

Discarded(r) == IF r.ok THEN PyOk(PyNone, r.globals) ELSE r

RunWords(words, g) ==
    IF words = <<>> THEN PyOk(PyNone, g)
    ELSE IF IsAssignment(words)
         THEN Assigned(words[1], EvalExpression(SubSeq(words, 3, Len(words)), g))
    ELSE Discarded(EvalWords(words, g))

\* py.run(code, globals)
py_run(code, g) == RunWords(split_whitespace(StripPyComment(code)), g)

(* Generator expressions.  A generator holds the items of its iterable, how  *)
(* many it has handed out, the variables of its for clause and the names it  *)
(* yields.  The iterable is evaluated, and iter() is called on it, when the  *)
(* generator is created; the variables are local to the generator.           *)

Generator(items, loop_vars, yields) ==
    [items |-> items, pos |-> 0, vars |-> loop_vars, yields |-> yields]

NoGenerator == Generator(<<>>, <<>>, <<>>)

GenOk(gen) == [ok |-> TRUE, generator |-> gen, exc |-> "none"]
GenErr(exc) == [ok |-> FALSE, generator |-> NoGenerator, exc |-> exc]

\* the names of a comma-separated list
RECURSIVE TrimEach(_)
TrimEach(ss) == IF ss = <<>> THEN <<>> ELSE <<Trim(Head(ss))>> \o TrimEach(Tail(ss))

NameList(s) == TrimEach(SplitComma(s, <<>>))

AllNames(names) == names # <<>> /\ \A k \in 1..Len(names) : IsName(names[k])

\* `((` yields `) for` variables `in` iterable `)`
IsGenexpr(e) == Len(e) >= 5 /\ StartsWith(e, <<"(", "(">>) /\ e[Len(e)] = ")"

\* the index of the `)` that ends the yielded tuple
YieldEnd(e) == CHOOSE k \in 3..Len(e) : e[k] = ")" /\ \A j \in 3..(k - 1) : e[j] # ")"

InIndex(cw) == CHOOSE k \in 2..Len(cw) : cw[k] = kw_in /\ \A j \in 2..(k - 1) : cw[j] # kw_in

GenexprOver(yields, loop_vars, it) ==
    IF ~it.ok THEN GenErr(it.exc)
    ELSE IF ~Iterable(it.value) THEN GenErr("TypeError")
    ELSE GenOk(Generator(Items(it.value), loop_vars, yields))

GenexprChecked(yields, loop_vars, iterable, g) ==
    IF ~AllNames(yields) \/ ~AllNames(loop_vars) \/ Len(iterable) # 1 THEN GenErr("SyntaxError")
    ELSE IF ~IsAtom(iterable[1]) THEN GenErr("SyntaxError")
    ELSE GenexprOver(yields, loop_vars, EvalAtom(iterable[1], g))

GenexprFor(yields, cw, in_pos, g) ==
    GenexprChecked(yields, NameList(Join(SubSeq(cw, 2, in_pos - 1), SP)),
                   SubSeq(cw, in_pos + 1, Len(cw)), g)

GenexprClause(yields, cw, g) ==
    IF cw = <<>> \/ cw[1] # kw_for \/ ~(\E k \in 2..Len(cw) : cw[k] = kw_in)
    THEN GenErr("SyntaxError")
    ELSE GenexprFor(yields, cw, InIndex(cw), g)

GenexprSplit(e, k, g) ==
    GenexprClause(NameList(SubSeq(e, 3, k - 1)),
                  split_whitespace(SubSeq(e, k + 1, Len(e) - 1)), g)

\* generator.__next__(): Ok(value) with the generator advanced, or Err
NextOk(value, gen) ==
    [ok |-> TRUE, value |-> value, generator |-> [gen EXCEPT !.pos = @ + 1], exc |-> "none"]
NextErr(exc, gen) == [ok |-> FALSE, value |-> PyNone, generator |-> gen, exc |-> exc]

\* the for clause binds its variables to the item
Unpacked(loop_vars, item) ==
    IF Len(loop_vars) = 1 THEN [ok |-> TRUE, values |-> <<item>>, exc |-> "none"]
    ELSE IF ~Iterable(item) THEN [ok |-> FALSE, values |-> <<>>, exc |-> "TypeError"]
    ELSE IF Len(Items(item)) # Len(loop_vars)
         THEN [ok |-> FALSE, values |-> <<>>, exc |-> "ValueError"]
    ELSE [ok |-> TRUE, values |-> Items(item), exc |-> "none"]

\* a yielded name is a variable of the clause (the last of that name) or a global
YieldValue(y, loop_vars, values, g) ==
    IF \E j \in 1..Len(loop_vars) : loop_vars[j] = y
    THEN PyOk(values[CHOOSE j \in 1..Len(loop_vars) :
                        loop_vars[j] = y /\ \A i \in (j + 1)..Len(loop_vars) : loop_vars[i] # y], g)
    ELSE EvalAtom(y, g)

Yielded(gen, ys) ==
    IF \E k \in 1..Len(ys) : ~ys[k].ok THEN NextErr("NameError", gen)
    ELSE IF Len(ys) = 1 THEN NextOk(ys[1].value, gen)
    ELSE NextOk(PyTuple([k \in 1..Len(ys) |-> ys[k].value]), gen)

NextUnpacked(gen, locals, g) ==
    IF ~locals.ok THEN NextErr(locals.exc, gen)
    ELSE Yielded(gen, [k \in 1..Len(gen.yields) |->
                          YieldValue(gen.yields[k], gen.vars, locals.values, g)])

generator_next(gen, g) ==
    IF gen.pos >= Len(gen.items) THEN NextErr("StopIteration", gen)
    ELSE NextUnpacked(gen, Unpacked(gen.vars, gen.items[gen.pos + 1]), g)

----------------------------------------------------------------------------
(* PypageExec *)

nm_package == <<"_", "_", "p", "a", "c", "k", "a", "g", "e", "_", "_">>
nm_name == <<"_", "_", "n", "a", "m", "e", "_", "_">>
nm_doc == <<"_", "_", "d", "o", "c", "_", "_">>
pypage_code == <<"p", "y", "p", "a", "g", "e", "_", "c", "o", "d", "e">>

\* restore_globals, and the loop of PypageExec::new over the seed: set_item
\* for every binding of a map
SetAll(g, bindings) ==
    {b \in g : ~(\E s \in bindings : s.name = b.name)} \cup bindings

\* PypageExec::new; seed_env is None (<<>>) or Some(dict) (<<dict>>)
PypageExec_new(seed_env) ==
    SetAll({Binding(nm_package, PyNone), Binding(nm_name, PyStr(pypage_code)),
            Binding(nm_doc, PyNone)},
           IF seed_env = <<>> THEN {} ELSE seed_env[1])

\* the outcome of run_code: Ok(String) with the globals it leaves, or Err
CodeOk(output, g) == [ok |-> TRUE, output |-> output, globals |-> g, error |-> NoError]
CodeErr(exc, g) == [ok |-> FALSE, output |-> <<>>, globals |-> g, error |-> PythonError(exc)]

\* if result_str == "None" { String::new() } else { result_str }
ResultString(result_str) == IF result_str = kw_None THEN <<>> ELSE result_str

RunCodeExecuted(r) == IF r.ok THEN CodeOk(<<>>, r.globals) ELSE CodeErr(r.exc, r.globals)

RunCodeEvaluated_AlsoRuns(trimmed_code, result, g) ==
    IF result.ok
    THEN CodeOk(ResultString(PyStrOf(result.value)), py_run(trimmed_code, result.globals).globals)
    ELSE RunCodeExecuted(py_run(trimmed_code, g))

\* match self.py.eval(..) { Ok(result) => .., Err(_) => { self.py.run(..)?; Ok(String::new()) } }
RunCodeEvaluated(trimmed_code, result, g) ==
    IF result.ok THEN CodeOk(ResultString(PyStrOf(result.value)), result.globals)
    ELSE RunCodeExecuted(py_run(trimmed_code, g))

RunCodeTrimmed(trimmed_code, g) == RunCodeEvaluated(trimmed_code, py_eval(trimmed_code, g), g)

run_code(code, g) == RunCodeTrimmed(Trim(unescape_str_cow(code)), g)

\* eval_expression: Ok(bool) or Err
Truth(r) == [ok |-> r.ok, truthy |-> r.ok /\ is_truthy(r.value), error |-> PythonError(r.exc)]

eval_expression(expr, g) == Truth(py_eval(expr, g))

\* eval_as_object, of the generator expression of a for tag
eval_as_object(expr, g) ==
    IF ~IsGenexpr(expr) THEN GenErr("SyntaxError") ELSE GenexprSplit(expr, YieldEnd(expr), g)

set_global(g, name, value) == set_item(g, name, PyStr(value))

set_global_object(g, name, obj) == set_item(g, name, obj)

backup_globals(g, names) == {b \in g : b.name \in Range(names)}

restore_globals(g, backup) == SetAll(g, backup)

delete_globals_Skipped(g, names) == g

\* for name in names: if has_global(name) then del_item(name)
RECURSIVE delete_globals(_, _)
delete_globals(g, names) ==
    IF names = <<>> THEN g
    ELSE delete_globals(IF has_global(g, Head(names)) THEN del_item(g, Head(names)) ELSE g,
                        Tail(names))

----------------------------------------------------------------------------
(* exec_tree.  A frame is one call of exec_tree on a Root node or on a      *)
(* Conditional, For, While or Capture block; the calls on Text and Code      *)
(* nodes and on Def and Comment blocks return at once and are one step of    *)
(* the caller.  `idx` children of the node have been rendered into `output`. *)
(* phase: "test" before a condition is evaluated, "tail" while the           *)
(* continuation of a conditional runs, "enter" at the start of a loop,       *)
(* "next" before the generator of a for loop is asked, "dofirst" and         *)
(* "children" while children are rendered, "ret" when the call returns.      *)

max_iterations == 10000

ExecFrame(node, phase) ==
    [node |-> node, phase |-> phase, idx |-> 0, output |-> <<>>, backup |-> {},
     generator |-> NoGenerator, iteration_count |-> 0]

\* the phase a call of exec_tree starts in
FirstPhase(node) ==
    IF node.type = "Root" THEN "children"
    ELSE CASE node.block_type.kind = "Conditional" -> "test"
           [] node.block_type.kind \in {"For", "While"} -> "enter"
           [] OTHER -> "children"

\* pypage_process before parse returns
ExecIdle(seed_env) == [state |-> "idle", seed_env |-> seed_env]

\* PypageExec::new(py, seed_env), then exec_tree(&tree, &exec) starts
ExecInit(tree, seed_env) ==
    [state |-> "running", seed_env |-> seed_env, globals |-> PypageExec_new(seed_env),
     stack |-> <<ExecFrame(tree, "children")>>, output |-> <<>>, error |-> NoError,
     stderr |-> <<>>]

\* parse(source) returned Err: no PypageExec is made
ExecNotStarted(e, seed_env) ==
    [state |-> "err", seed_env |-> seed_env, globals |-> {}, stack |-> <<>>,
     output |-> <<>>, error |-> e, stderr |-> <<>>]

ProcessParsed_Eager(p, seed_env) == ExecInit(p.tree, seed_env)

\* `parse(source).map_err(..)?` before `PypageExec::new(py, seed_env)?`
ProcessParsed(p, seed_env) ==
    IF p.state = "err" THEN ExecNotStarted(p.error, seed_env) ELSE ExecInit(p.tree, seed_env)

ExecTop(x) == x.stack[Len(x.stack)]

OnExecTop(x, f) == [x EXCEPT !.stack[Len(x.stack)] = f]

\* the ? operator: the error leaves every call
ExecFail(x, e) == [x EXCEPT !.state = "err", !.error = e, !.stack = <<>>]

TextOutput_Unescaped(text) == unescape_str_cow(text.src)

\* Node::Text(text) => Ok(text.src.to_owned())
TextOutput(text) == text.src

\* output.push_str(&exec_tree(child, exec)?) for a child that is a leaf
Pushed(f, s) == [f EXCEPT !.output = @ \o s, !.idx = @ + 1]

RenderText(x, f, child) == OnExecTop(x, Pushed(f, TextOutput(child)))

RenderCode(x, f, r) ==
    IF r.ok THEN [OnExecTop(x, Pushed(f, r.output)) EXCEPT !.globals = r.globals]
    ELSE ExecFail(x, r.error)

\* BlockType::Comment(_) => Ok(String::new())
RenderCommentBlock(x, f) == OnExecTop(x, Pushed(f, <<>>))

\* the def statement exec_tree runs for a Def block
DefineFunction(g, def_block) ==
    IF ~IsName(def_block.funcname) THEN PyErr("SyntaxError", g)
    ELSE PyOk(PyNone, set_item(g, def_block.funcname,
                               PyFunction(def_block.funcname, Len(def_block.argnames))))

RenderDef(x, f, r) ==
    IF r.ok THEN [OnExecTop(x, Pushed(f, <<>>)) EXCEPT !.globals = r.globals]
    ELSE ExecFail(x, PythonError(r.exc))

\* exec_tree(child, exec) is called for a block
CallExec(x, child) == [x EXCEPT !.stack = Append(@, ExecFrame(child, FirstPhase(child)))]

ConditionalBranch_Fallthrough(truthy, continuation) ==
    IF continuation # <<>> THEN "continuation" ELSE IF truthy THEN "children" ELSE "empty"

\* what a conditional does once its expression is evaluated
ConditionalBranch(truthy, continuation) ==
    IF truthy THEN "children" ELSE IF continuation # <<>> THEN "continuation" ELSE "empty"

ConditionalBranched(x, f, branch) ==
    CASE branch = "children" -> OnExecTop(x, [f EXCEPT !.phase = "children"])
      [] branch = "continuation" ->
            CallExec(OnExecTop(x, [f EXCEPT !.phase = "tail"]),
                     f.node.block_type.continuation[1])
      [] OTHER -> OnExecTop(x, [f EXCEPT !.phase = "ret"])

ConditionalTested(x, f, t) ==
    IF ~t.ok THEN ExecFail(x, t.error)
    ELSE ConditionalBranched(x, f, ConditionalBranch(t.truthy, f.node.block_type.continuation))

\* backup_globals, then eval_as_object(genexpr)?
ForEntered(x, f, made) ==
    IF ~made.ok THEN ExecFail(x, PythonError(made.exc))
    ELSE OnExecTop(x, [f EXCEPT !.phase = "next", !.generator = made.generator,
                                !.backup = backup_globals(x.globals, f.node.block_type.targets)])

\* the targets beyond the first take the values of the result, as far as they go
RECURSIVE SetEach(_, _, _, _)
SetEach(g, targets, values, i) ==
    IF i > Len(targets) THEN g
    ELSE SetEach(IF i <= Len(values) THEN set_global_object(g, targets[i], values[i]) ELSE g,
                 targets, values, i + 1)

BindTargets_Whole(g, targets, result) ==
    PyOk(PyNone, SetEach(g, targets, [k \in 1..Len(targets) |-> result], 1))

\* the targets are set from the result of __next__
BindTargets(g, targets, result) ==
    IF Len(targets) = 1 THEN PyOk(PyNone, set_global_object(g, targets[1], result))
    ELSE IF Iterable(result) THEN PyOk(PyNone, SetEach(g, targets, Items(result), 1))
    ELSE PyErr("TypeError", g)

ForBound(x, f, gen, bound) ==
    IF ~bound.ok THEN ExecFail(x, PythonError(bound.exc))
    ELSE [OnExecTop(x, [f EXCEPT !.phase = "children", !.idx = 0, !.generator = gen])
             EXCEPT !.globals = bound.globals]

\* Ok(result) of __next__: bind the targets and render the body
ForNext(x, f, nx) ==
    ForBound(x, f, nx.generator, BindTargets(x.globals, f.node.block_type.targets, nx.value))

\* Err(_) of __next__: break, delete_globals, restore_globals, Ok(output)
ForEnd(x, f) ==
    [OnExecTop(x, [f EXCEPT !.phase = "ret"]) EXCEPT
        !.globals = restore_globals(delete_globals(x.globals, f.node.block_type.targets),
                                    f.backup)]

WhileEntered_NoDofirst(x, f) ==
    OnExecTop(x, [f EXCEPT !.phase = "test", !.idx = 0, !.iteration_count = 0])

\* if while_block.dofirst: the body once, before the main loop
WhileEntered(x, f) ==
    OnExecTop(x, [f EXCEPT !.phase = IF f.node.block_type.dofirst THEN "dofirst" ELSE "test",
                           !.idx = 0, !.iteration_count = 0])

\* while exec.eval_expression(&while_block.expr)?
WhileTested(x, f, t) ==
    IF ~t.ok THEN ExecFail(x, t.error)
    ELSE IF t.truthy THEN OnExecTop(x, [f EXCEPT !.phase = "children", !.idx = 0])
    ELSE OnExecTop(x, [f EXCEPT !.phase = "ret"])

ReachedMaxIterations_OffByOne(iteration_count) == iteration_count > max_iterations

\* iteration_count >= max_iterations
ReachedMaxIterations(iteration_count) == iteration_count >= max_iterations

\* a line of the error stream: eprintln!("Loop '{}' terminated after {} iterations (..)")
Diagnostic(expr, iteration_count, limit) ==
    [expr |-> expr, iterations |-> iteration_count, limit |-> limit]

WhileStopped(x, f, iteration_count, limit) ==
    [OnExecTop(x, [f EXCEPT !.phase = "ret", !.iteration_count = iteration_count])
        EXCEPT !.stderr = Append(@, Diagnostic(f.node.block_type.expr, iteration_count, limit))]

\* the body of the main loop has been rendered; `late` is
\* loop_start_time.elapsed() > time_limit
WhileCounted(x, f, iteration_count, late) ==
    IF ~f.node.block_type.slow /\ late THEN WhileStopped(x, f, iteration_count, "time")
    ELSE IF ~f.node.block_type.slow /\ ReachedMaxIterations(iteration_count)
         THEN WhileStopped(x, f, iteration_count, "iteration")
    ELSE OnExecTop(x, [f EXCEPT !.phase = "test", !.iteration_count = iteration_count])

WhileIterated(x, f, late) == WhileCounted(x, f, f.iteration_count + 1, late)

\* the children of a conditional, of a for body or of the dofirst pass are done
BodyEnd(x, f) ==
    CASE f.node.block_type.kind = "Conditional" -> OnExecTop(x, [f EXCEPT !.phase = "ret"])
      [] f.node.block_type.kind = "For" -> OnExecTop(x, [f EXCEPT !.phase = "next"])
      [] OTHER -> OnExecTop(x, [f EXCEPT !.phase = "test"])

CaptureEnd_Emits(x, f) ==
    [OnExecTop(x, [f EXCEPT !.phase = "ret"]) EXCEPT
        !.globals = set_global(x.globals, f.node.block_type.varname, f.output)]

\* exec.set_global(&capture_block.varname, &output)?; Ok(String::new())
CaptureEnd(x, f) ==
    [OnExecTop(x, [f EXCEPT !.phase = "ret", !.output = <<>>]) EXCEPT
        !.globals = set_global(x.globals, f.node.block_type.varname, f.output)]

\* the caller takes what the call returns
Returned(caller, callee) ==
    IF caller.phase = "tail" THEN [caller EXCEPT !.phase = "ret", !.output = callee.output]
    ELSE Pushed(caller, callee.output)

ExecReturned(x, caller, callee) ==
    [x EXCEPT !.stack = Append(SubSeq(@, 1, Len(@) - 2), Returned(caller, callee))]

\* exec_tree(&tree, &exec) returns Ok(output)
RootEnd(x, f) == [x EXCEPT !.state = "ok", !.output = f.output, !.stack = <<>>]

----------------------------------------------------------------------------
(* exec_tree and pypage_process as functions: the steps of the calls, taken  *)
(* one after the other until the outermost call returns.  The clock of a     *)
(* while loop is taken not to pass its limit.                                *)

\* the running call renders its next child
ExecChild(x, f, child) ==
    CASE child.type = "Text" -> RenderText(x, f, child)
      [] child.type = "Code" -> RenderCode(x, f, run_code(child.src, x.globals))
      [] child.block_type.kind = "Comment" -> RenderCommentBlock(x, f)
      [] child.block_type.kind = "Def" ->
            RenderDef(x, f, DefineFunction(x.globals, child.block_type))
      [] OTHER -> CallExec(x, child)

\* the running call has rendered its children
ExecChildrenDone(x, f) ==
    IF f.node.type = "Root" THEN RootEnd(x, f)
    ELSE CASE f.node.block_type.kind = "Capture" -> CaptureEnd(x, f)
           [] f.node.block_type.kind = "While" /\ f.phase = "children" ->
                 WhileIterated(x, f, FALSE)
           [] OTHER -> BodyEnd(x, f)

\* the running call is at the head of a block
ExecHead(x, f, kind) ==
    CASE f.phase = "test" /\ kind = "Conditional" ->
            ConditionalTested(x, f, eval_expression(f.node.block_type.expr, x.globals))
      [] f.phase = "test" ->
            WhileTested(x, f, eval_expression(f.node.block_type.expr, x.globals))
      [] f.phase = "enter" /\ kind = "For" ->
            ForEntered(x, f, eval_as_object(f.node.block_type.genexpr, x.globals))
      [] f.phase = "enter" -> WhileEntered(x, f)
      [] f.phase = "next" /\ generator_next(f.generator, x.globals).ok ->
            ForNext(x, f, generator_next(f.generator, x.globals))
      [] f.phase = "next" -> ForEnd(x, f)
      [] OTHER -> ExecReturned(x, x.stack[Len(x.stack) - 1], f)

ExecStepOf(x, f) ==
    IF f.phase \in {"children", "dofirst"}
    THEN IF f.idx < Len(f.node.children)
         THEN ExecChild(x, f, f.node.children[f.idx + 1])
         ELSE ExecChildrenDone(x, f)
    ELSE ExecHead(x, f, f.node.block_type.kind)

\* one step of the running evaluation
ExecStep(x) == ExecStepOf(x, ExecTop(x))

RECURSIVE ExecRun(_)
ExecRun(x) == IF x.state # "running" THEN x ELSE ExecRun(ExecStep(x))

\* pypage_process(source, seed_env): Ok(output) or Err(error), as the
\* record's state / output / error
pypage_process(source, seed_env) == ExecRun(ProcessParsed(parse(source), seed_env))

----------------------------------------------------------------------------
(* pypage_process as a state machine: parse, then one action per step of     *)
(* exec_tree.                                                                *)

nm_x == <<"x">>
nm_y == <<"y">>
nm_n == <<"n">>
nm_a == <<"a">>
nm_b == <<"b">>
nm_f == <<"f">>
nm_v == <<"v">>
nm_xs == <<"x", "s">>
nm_ys == <<"y", "s">>
nm_ps == <<"p", "s">>
nm_zz == <<"z", "z">>

Words(ws) == Join(ws, SP)

\* `{{ body }}`
CodeTag(body) == CODE_OPEN \o SP \o body \o SP \o CODE_CLOSE

stmt_x == Words(<<nm_x, <<"=">>, <<"5">>>>)
stmt_y == Words(<<nm_y, <<"=">>, <<"1">>>>)
stmt_n == Words(<<nm_n, <<"=">>, nm_n, <<"+">>, <<"1">>>>)
expr_n == Words(<<nm_n, <<"<">>, <<"2">>>>)

\* longest source without directives, drawn character by character
MaxText == 4

TextAlphabet == {"{", "}", "\\", "a", "\n", "#", "%"}

HasOpener(s) == Contains(s, CODE_OPEN) \/ Contains(s, COMMENT_OPEN) \/ Contains(s, BLOCK_OPEN)

TextSources == {s \in SeqsUpTo(TextAlphabet, MaxText) : ~HasOpener(s)}

\* conditional chains: if, up to two elifs, an else or none
CondExprs == {nm_x, nm_y, kw_False, nm_zz}

IfTag(e) == BlockTag(Words(<<kw_if, e>>))
ElifTag(e) == BlockTag(Words(<<kw_elif, e>>))

Elifs ==
    {<<>>} \cup {ElifTag(e) \o <<"b">> : e \in CondExprs}
           \cup {ElifTag(e[1]) \o <<"b">> \o ElifTag(e[2]) \o <<"c">> : e \in CondExprs \X CondExprs}

Elses == {<<>>, tag_else \o <<"e">>}

IfSources ==
    {IfTag(p[1]) \o <<"a">> \o p[2] \o p[3] \o tag_end \o <<"d">> :
        p \in CondExprs \X Elifs \X Elses}

\* an arm that changes what a later arm tests, an else before an elif, a
\* chain inside an arm
IfElifSetsY == IfTag(nm_x) \o CodeTag(stmt_y) \o <<"a">> \o ElifTag(nm_y) \o <<"b">> \o tag_end
IfElseElif ==
    IfTag(nm_x) \o <<"a">> \o tag_else \o <<"b">> \o ElifTag(nm_y) \o <<"c">>
        \o tag_else \o <<"e">> \o tag_end
IfNested ==
    IfTag(nm_x) \o IfTag(nm_y) \o <<"a">> \o tag_else \o <<"b">> \o tag_end
        \o tag_else \o <<"c">> \o tag_end

\* for loops
ForTag(loop_vars, iterable) == BlockTag(Words(<<kw_for, loop_vars, kw_in, iterable>>))

ForHeads ==
    {ForTag(nm_x, nm_xs), ForTag(nm_x, nm_ys), ForTag(<<"b", ",", "a">>, nm_ps),
     ForTag(<<"x", ",", "y">>, nm_xs), ForTag(nm_x, nm_zz)}

ForInner == ForTag(nm_x, nm_ys) \o CodeTag(nm_x) \o tag_end

ForBodies ==
    {<<>>, <<"t">>, CodeTag(nm_x), CodeTag(stmt_x) \o CodeTag(nm_x),
     CodeTag(nm_a) \o CodeTag(nm_b), ForInner, ForInner \o CodeTag(nm_x)}

ForSources ==
    {p[1] \o p[2] \o tag_end \o p[3] : p \in ForHeads \X ForBodies \X {<<>>, <<"d">>, CodeTag(nm_x)}}

ForNestedSame == ForTag(nm_x, nm_xs) \o ForInner \o CodeTag(nm_x) \o tag_end

\* while loops that their condition ends, captures, defs, comments, code
WhileTag(words) == BlockTag(Words(<<kw_while>> \o words))

WhileBody == CodeTag(stmt_n) \o <<"a">> \o tag_end \o CodeTag(nm_n)

\* a function of one argument and a call of it
DefThenCall(call) ==
    BlockTag(Words(<<kw_def, nm_f, nm_a>>)) \o <<"t">> \o tag_end \o CodeTag(Words(call))

\* a string that reads `None`
CaptureNone == BlockTag(Words(<<kw_capture, nm_v>>)) \o kw_None \o tag_end \o CodeTag(nm_v)

CaptureTag(varname) == BlockTag(Words(<<kw_capture, varname>>))

\* a capture of the name the loop around it binds
CaptureInFor ==
    ForTag(nm_v, nm_xs) \o CaptureTag(nm_v) \o <<"a">> \o tag_end \o tag_end \o CodeTag(nm_v)

\* a capture, then a loop that binds the captured name
CaptureThenFor ==
    CaptureTag(nm_v) \o <<"a">> \o tag_end \o ForTag(nm_v, nm_xs) \o CodeTag(nm_v) \o tag_end
        \o CodeTag(nm_v)

\* a capture of a block, a text and a code
CaptureOfBlock ==
    CaptureTag(nm_v) \o IfTag(nm_x) \o <<"a">> \o tag_end \o <<"b">> \o CodeTag(nm_y) \o tag_end
        \o <<"c">> \o CodeTag(nm_v)

\* a code that assigns, before a tag parse_block_type refuses and before a
\* tag the lexer finds unfinished
CodeBeforeParseError == CodeTag(stmt_x) \o <<"a">> \o BlockTag(kw_if)
CodeBeforeLexError == CodeTag(stmt_x) \o <<"a">> \o CODE_OPEN \o nm_x

\* an expression that changes the globals each time it is evaluated
expr_bump == Words(<<<<"(">>, nm_n, <<":", "=">>, nm_n, <<"+">>, <<"1">>, <<")">>>>)

BumpThenRead == CodeTag(expr_bump) \o CodeTag(nm_n)

OtherSources ==
    { WhileTag(<<expr_n>>) \o WhileBody,
      WhileTag(<<kw_dofirst, expr_n>>) \o WhileBody,
      WhileTag(<<expr_n, kw_slow>>) \o WhileBody,
      WhileTag(<<kw_dofirst, kw_False>>) \o WhileBody,
      WhileTag(<<kw_False>>) \o WhileBody,
      WhileTag(<<nm_zz>>) \o WhileBody,
      BlockTag(Words(<<kw_capture, nm_v>>)) \o <<"a">> \o CodeTag(nm_x) \o tag_end \o CodeTag(nm_v),
      BlockTag(Words(<<kw_def, nm_f, nm_a>>)) \o <<"t">> \o tag_end \o <<"b">>,
      BlockTag(Words(<<kw_def, kw_if>>)) \o tag_end,
      DefThenCall(<<nm_f, <<"(">>, nm_x, <<")">>>>),
      DefThenCall(<<nm_f, <<"(">>, <<")">>>>),
      DefThenCall(<<nm_f, <<"(">>, nm_x, <<",">>, <<"1">>, <<")">>>>),
      DefThenCall(<<nm_f, <<"(">>, nm_zz, <<")">>>>),
      DefThenCall(<<nm_n, <<"(">>, <<")">>>>),
      CaptureNone,
      BumpThenRead,
      CodeBeforeParseError,
      CodeBeforeLexError,
      CaptureInFor,
      CaptureThenFor,
      CaptureOfBlock,
      BlockTag(kw_comment) \o <<"a">> \o CodeTag(nm_zz) \o tag_end \o <<"b">>,
      CodeTag(kw_None) \o CodeTag(nm_n) \o CodeTag(<<>>),
      CodeTag(<<"\\", "{">>),
      comment_c \o <<"a">>,
      BlockTag(kw_if) }

TemplateSources ==
    IfSources \cup {IfElifSetsY, IfElseElif, IfNested} \cup ForSources \cup {ForNestedSame}
        \cup OtherSources

\* the seed environments: x and y unbound, falsy or truthy, xs of no, one or
\* two items
SeedValues == {<<>>, <<PyInt(0)>>, <<PyInt(7)>>}

SeedLists == {PyList(<<>>), PyList(<<PyInt(1)>>), PyList(<<PyInt(1), PyInt(2)>>)}

Bound(name, value) == IF value = <<>> THEN {} ELSE {Binding(name, value[1])}

SeedEnv(x, y, xs) ==
    Bound(nm_x, x) \cup Bound(nm_y, y)
        \cup {Binding(nm_xs, xs), Binding(nm_ys, PyList(<<PyInt(3)>>)), Binding(nm_n, PyInt(0)),
              Binding(nm_ps, PyList(<<PyTuple(<<PyInt(1), PyInt(2)>>),
                                      PyTuple(<<PyInt(3), PyInt(4)>>)>>))}

SeedEnvs == {<<SeedEnv(s[1], s[2], s[3])>> : s \in SeedValues \X SeedValues \X SeedLists}

InitProcess ==
    /\ \/ (src \in TextSources /\ ex \in {ExecIdle(<<>>), ExecIdle(<<{}>>)})
       \/ (src \in TemplateSources /\ ex \in {ExecIdle(s) : s \in SeedEnvs \cup {<<>>}})
    /\ pc = "process"
    /\ lx = LexInit
    /\ ps = PsIdle

\* let tree = parse(source)?; let exec = PypageExec::new(py, seed_env)?
ProcessParse ==
    /\ pc = "process"
    /\ ex.state = "idle"
    /\ lx' = lex(src)
    /\ ps' = ParseRun(ParseLexed(lx'))
    /\ ex' = ProcessParsed(ps', ex.seed_env)
    /\ UNCHANGED <<src, pc>>

Executing == pc = "process" /\ ex.state = "running"

\* the running call is in this phase
InPhase(phase) == Executing /\ ExecTop(ex).phase = phase

\* the running call is about to render its next child
Rendering ==
    /\ Executing
    /\ ExecTop(ex).phase \in {"children", "dofirst"}
    /\ ExecTop(ex).idx < Len(ExecTop(ex).node.children)

NextChild == ExecTop(ex).node.children[ExecTop(ex).idx + 1]

\* the running call has rendered all its children
Rendered ==
    /\ Executing
    /\ ExecTop(ex).phase \in {"children", "dofirst"}
    /\ ExecTop(ex).idx = Len(ExecTop(ex).node.children)

TopKind == ExecTop(ex).node.block_type.kind

ExecText ==
    /\ Rendering /\ NextChild.type = "Text"
    /\ ex' = RenderText(ex, ExecTop(ex), NextChild)
    /\ UNCHANGED <<src, pc, lx, ps>>

ExecCode ==
    /\ Rendering /\ NextChild.type = "Code"
    /\ ex' = RenderCode(ex, ExecTop(ex), run_code(NextChild.src, ex.globals))
    /\ UNCHANGED <<src, pc, lx, ps>>

ExecCommentBlock ==
    /\ Rendering /\ NextChild.type = "Block" /\ NextChild.block_type.kind = "Comment"
    /\ ex' = RenderCommentBlock(ex, ExecTop(ex))
    /\ UNCHANGED <<src, pc, lx, ps>>

ExecDef ==
    /\ Rendering /\ NextChild.type = "Block" /\ NextChild.block_type.kind = "Def"
    /\ ex' = RenderDef(ex, ExecTop(ex), DefineFunction(ex.globals, NextChild.block_type))
    /\ UNCHANGED <<src, pc, lx, ps>>

ExecBlock ==
    /\ Rendering /\ NextChild.type = "Block"
    /\ NextChild.block_type.kind \in {"Conditional", "For", "While", "Capture"}
    /\ ex' = CallExec(ex, NextChild)
    /\ UNCHANGED <<src, pc, lx, ps>>

ExecConditional ==
    /\ InPhase("test") /\ TopKind = "Conditional"
    /\ ex' = ConditionalTested(ex, ExecTop(ex),
                               eval_expression(ExecTop(ex).node.block_type.expr, ex.globals))
    /\ UNCHANGED <<src, pc, lx, ps>>

ExecForEnter ==
    /\ InPhase("enter") /\ TopKind = "For"
    /\ ex' = ForEntered(ex, ExecTop(ex),
                        eval_as_object(ExecTop(ex).node.block_type.genexpr, ex.globals))
    /\ UNCHANGED <<src, pc, lx, ps>>

ExecForNext ==
    /\ InPhase("next")
    /\ generator_next(ExecTop(ex).generator, ex.globals).ok
    /\ ex' = ForNext(ex, ExecTop(ex), generator_next(ExecTop(ex).generator, ex.globals))
    /\ UNCHANGED <<src, pc, lx, ps>>

ExecForEnd ==
    /\ InPhase("next")
    /\ ~generator_next(ExecTop(ex).generator, ex.globals).ok
    /\ ex' = ForEnd(ex, ExecTop(ex))
    /\ UNCHANGED <<src, pc, lx, ps>>

ExecWhileEnter ==
    /\ InPhase("enter") /\ TopKind = "While"
    /\ ex' = WhileEntered(ex, ExecTop(ex))
    /\ UNCHANGED <<src, pc, lx, ps>>

ExecWhileTest ==
    /\ InPhase("test") /\ TopKind = "While"
    /\ ex' = WhileTested(ex, ExecTop(ex),
                         eval_expression(ExecTop(ex).node.block_type.expr, ex.globals))
    /\ UNCHANGED <<src, pc, lx, ps>>

ExecWhileIterated ==
    /\ Rendered /\ ExecTop(ex).node.type = "Block"
    /\ TopKind = "While" /\ ExecTop(ex).phase = "children"
    /\ \E late \in BOOLEAN : ex' = WhileIterated(ex, ExecTop(ex), late)
    /\ UNCHANGED <<src, pc, lx, ps>>

ExecBodyEnd ==
    /\ Rendered /\ ExecTop(ex).node.type = "Block"
    /\ \/ TopKind \in {"Conditional", "For"}
       \/ (TopKind = "While" /\ ExecTop(ex).phase = "dofirst")
    /\ ex' = BodyEnd(ex, ExecTop(ex))
    /\ UNCHANGED <<src, pc, lx, ps>>

ExecCaptureEnd ==
    /\ Rendered /\ ExecTop(ex).node.type = "Block" /\ TopKind = "Capture"
    /\ ex' = CaptureEnd(ex, ExecTop(ex))
    /\ UNCHANGED <<src, pc, lx, ps>>

ExecReturn ==
    /\ InPhase("ret")
    /\ ex' = ExecReturned(ex, ex.stack[Len(ex.stack) - 1], ExecTop(ex))
    /\ UNCHANGED <<src, pc, lx, ps>>

ExecRootEnd ==
    /\ Rendered /\ ExecTop(ex).node.type = "Root"
    /\ ex' = RootEnd(ex, ExecTop(ex))
    /\ UNCHANGED <<src, pc, lx, ps>>

NextProcess ==
    \/ ProcessParse
    \/ ExecText
    \/ ExecCode
    \/ ExecCommentBlock
    \/ ExecDef
    \/ ExecBlock
    \/ ExecConditional
    \/ ExecForEnter
    \/ ExecForNext
    \/ ExecForEnd
    \/ ExecWhileEnter
    \/ ExecWhileTest
    \/ ExecWhileIterated
    \/ ExecBodyEnd
    \/ ExecCaptureEnd
    \/ ExecReturn
    \/ ExecRootEnd

SpecProcess == InitProcess /\ [][NextProcess]_vars

(* Loops that only their guard ends: the same machine, over templates whose  *)
(* while condition stays truthy.                                            *)

WhileTrue == WhileTag(<<kw_True>>) \o tag_end \o <<"t">>
WhileDofirstTrue == WhileTag(<<kw_dofirst, kw_True>>) \o CodeTag(stmt_n) \o tag_end \o CodeTag(nm_n)
WhileX == WhileTag(<<nm_x>>) \o CodeTag(stmt_n) \o tag_end \o <<"t">>

WhileSources == {WhileTrue, WhileDofirstTrue, WhileX}

InitWhile ==
    /\ src \in WhileSources
    /\ ex = ExecIdle(<<SeedEnv(<<PyInt(7)>>, <<>>, PyList(<<>>))>>)
    /\ pc = "process"
    /\ lx = LexInit
    /\ ps = PsIdle

NextWhile ==
    \/ ProcessParse
    \/ ExecText
    \/ ExecCode
    \/ ExecBlock
    \/ ExecWhileEnter
    \/ ExecWhileTest
    \/ ExecWhileIterated
    \/ ExecBodyEnd
    \/ ExecReturn
    \/ ExecRootEnd

SpecWhile == InitWhile /\ [][NextWhile]_vars

(* Templates with comments: the same machine, over every sequence of a few   *)
(* pieces, comments among them.                                              *)

\* most pieces of a template with comments
MaxErase == 4

\* `{#a{#a#}a#}`
comment_nested ==
    COMMENT_OPEN \o <<"a">> \o COMMENT_OPEN \o <<"a">> \o COMMENT_CLOSE \o <<"a">> \o COMMENT_CLOSE

\* `{#{{ a }}#}`: a comment around code that names nothing bound
comment_code == COMMENT_OPEN \o CodeTag(<<"a">>) \o COMMENT_CLOSE

ErasePieces ==
    {<<"{">>, <<"a">>, comment_c, comment_nested, comment_code,
     CodeTag(nm_x), IfTag(nm_x), tag_else, tag_end}

EraseSources == {Flatten(p) : p \in SeqsUpTo(ErasePieces, MaxErase)}

InitErase ==
    /\ src \in EraseSources
    /\ ex \in {ExecIdle(<<>>), ExecIdle(<<SeedEnv(<<PyInt(7)>>, <<>>, PyList(<<>>))>>),
                ExecIdle(<<SeedEnv(<<PyInt(0)>>, <<>>, PyList(<<>>))>>)}
    /\ pc = "process"
    /\ lx = LexInit
    /\ ps = PsIdle

NextErase ==
    \/ ProcessParse
    \/ ExecText
    \/ ExecCode
    \/ ExecBlock
    \/ ExecConditional
    \/ ExecBodyEnd
    \/ ExecReturn
    \/ ExecRootEnd

SpecErase == InitErase /\ [][NextErase]_vars

----------------------------------------------------------------------------
(* Claims about evaluation *)

\* pypage_process has returned
Finished == pc = "process" /\ ex.state \in {"ok", "err"}

\* C1: for a source that holds none of the openers `{{`, `{#`, `{%`,
\* pypage_process never fails, every step before it returns renders a text
\* or returns, and what it returns is the source itself.
C1_NoDirectiveRoundTrip ==
    (pc = "process" /\ ex.state # "idle" /\ ~HasOpener(src))
        => /\ ex.state # "err"
           /\ ex.state = "running" => ENABLED (ExecText \/ ExecRootEnd)
           /\ ex.state = "ok" => ex.output = src

C1_Witness ==
    /\ Finished /\ ex.state = "ok"
    /\ src = <<"\\", "{", "\n", "}">>
    /\ ex.output = src

\* the arms of a conditional chain, in chain order
RECURSIVE Arms(_)
Arms(block) ==
    <<block>> \o (IF block.block_type.continuation = <<>> THEN <<>>
                  ELSE Arms(block.block_type.continuation[1]))

TextOnly(children) == \A k \in 1..Len(children) : children[k].type = "Text"

RECURSIVE TextOf(_)
TextOf(children) ==
    IF children = <<>> THEN <<>> ELSE Head(children).src \o TextOf(Tail(children))

\* the template is one conditional chain with texts in its arms, and texts behind it
IsPlainChain(tree) ==
    /\ tree.children # <<>>
    /\ tree.children[1].type = "Block"
    /\ tree.children[1].block_type.kind = "Conditional"
    /\ TextOnly(Tail(tree.children))
    /\ \A k \in 1..Len(Arms(tree.children[1])) : TextOnly(Arms(tree.children[1])[k].children)

\* an arm whose expression is truthy or raises, in the globals g
Decides(arm, g) ==
    \/ ~eval_expression(arm.block_type.expr, g).ok
    \/ eval_expression(arm.block_type.expr, g).truthy

\* the first such arm of the chain, 0 when there is none
FirstArm(arms, g) ==
    IF \E k \in 1..Len(arms) : Decides(arms[k], g)
    THEN CHOOSE k \in 1..Len(arms) :
            Decides(arms[k], g) /\ \A j \in 1..(k - 1) : ~Decides(arms[j], g)
    ELSE 0

\* what pypage_process returns for a plain chain: the texts of the first
\* truthy arm, nothing when no arm is truthy, an error when an expression
\* raises before an arm is truthy
PlainChainResult(arms, k, g, rest) ==
    IF k = 0 THEN ex.state = "ok" /\ ex.output = rest
    ELSE IF ~eval_expression(arms[k].block_type.expr, g).ok THEN ex.state = "err"
    ELSE ex.state = "ok" /\ ex.output = TextOf(arms[k].children) \o rest

C2_Final ==
    (Finished /\ ps.state = "ok" /\ IsPlainChain(ps.tree))
        => PlainChainResult(Arms(ps.tree.children[1]),
                            FirstArm(Arms(ps.tree.children[1]), PypageExec_new(ex.seed_env)),
                            PypageExec_new(ex.seed_env),
                            TextOf(Tail(ps.tree.children)))

\* the step that tests the expression of an arm: a truthy arm goes on to
\* render its own children, a falsy one hands over to the next arm of the
\* chain, the last falsy arm returns nothing
C2_Tests(f, t, depth) ==
    IF ~t.ok THEN ex'.state = "err"
    ELSE IF t.truthy
         THEN ex'.state = "running" /\ ex'.stack = [ex.stack EXCEPT ![depth].phase = "children"]
    ELSE IF f.node.block_type.continuation # <<>>
         THEN /\ ex'.state = "running"
              /\ ex'.stack = Append([ex.stack EXCEPT ![depth].phase = "tail"],
                                    ExecFrame(f.node.block_type.continuation[1], "test"))
    ELSE /\ ex'.state = "running"
         /\ ex'.stack = [ex.stack EXCEPT ![depth].phase = "ret"]
         /\ f.output = <<>>

C2_Step ==
    /\ (InPhase("test") /\ TopKind = "Conditional")
            => C2_Tests(ExecTop(ex),
                        eval_expression(ExecTop(ex).node.block_type.expr, ex.globals),
                        Len(ex.stack))
    \* an arm that has rendered its children returns them: no other arm runs
    /\ (Rendered /\ ExecTop(ex).node.type = "Block" /\ TopKind = "Conditional")
            => ex'.stack = [ex.stack EXCEPT ![Len(ex.stack)].phase = "ret"]
    \* an arm that handed over returns what the arm behind it returns
    /\ (InPhase("ret") /\ ex.stack[Len(ex.stack) - 1].phase = "tail")
            => /\ Len(ex'.stack) = Len(ex.stack) - 1
               /\ ExecTop(ex').phase = "ret"
               /\ ExecTop(ex').output = ExecTop(ex).output

\* C2: a conditional chain tests its arms in chain order and renders the
\* children of the first arm whose expression is truthy (the else arm is
\* always truthy) and of no other arm; it renders nothing when no arm is
\* truthy.
C2_FirstTruthyArm == [][C2_Step]_vars /\ []C2_Final

C2_Witness ==
    /\ Finished /\ ex.state = "ok"
    /\ src = IfTag(nm_x) \o <<"a">> \o ElifTag(nm_y) \o <<"b">> \o tag_else \o <<"e">>
                \o tag_end \o <<"d">>
    /\ ex.output = <<"b", "d">>

\* the bindings of these names in the globals g
BoundAmong(g, names) == {b \in g : \E k \in 1..Len(names) : names[k] = b.name}

\* a Code node that binds nothing
IsPureCode(node) == node.type = "Code" /\ ~IsAssignment(split_whitespace(Trim(node.src)))

\* the template is one for loop, with texts and expressions around it
IsOneLoop(tree) ==
    /\ \E k \in 1..Len(tree.children) :
          /\ tree.children[k].type = "Block"
          /\ tree.children[k].block_type.kind = "For"
          /\ \A j \in 1..Len(tree.children) :
                j = k \/ tree.children[j].type = "Text" \/ IsPureCode(tree.children[j])

TheLoop(tree) ==
    tree.children[CHOOSE k \in 1..Len(tree.children) : tree.children[k].type = "Block"]

\* when pypage_process returns, the targets of the loop are bound as the
\* seed environment bound them
C3_Final ==
    (Finished /\ ex.state = "ok" /\ IsOneLoop(ps.tree))
        => BoundAmong(ex.globals, TheLoop(ps.tree).block_type.targets)
              = BoundAmong(PypageExec_new(ex.seed_env), TheLoop(ps.tree).block_type.targets)

C3_Step ==
    \* entering the loop records the bindings the targets have
    /\ (InPhase("enter") /\ TopKind = "For" /\ ex'.state = "running")
            => ExecTop(ex').backup = BoundAmong(ex.globals, ExecTop(ex).node.block_type.targets)
    \* nothing changes the record while the loop runs, whatever runs inside it
    /\ Executing
            => \A k \in 1..Len(ex.stack) :
                  (/\ ex.stack[k].node.type = "Block"
                   /\ ex.stack[k].node.block_type.kind = "For"
                   /\ ex.stack[k].phase # "enter"
                   /\ ex'.state = "running"
                   /\ k <= Len(ex'.stack))
                      => /\ ex'.stack[k].node = ex.stack[k].node
                         /\ ex'.stack[k].backup = ex.stack[k].backup
    \* leaving the loop binds the targets as recorded, and only so
    /\ (InPhase("next") /\ ex'.state = "running" /\ ExecTop(ex').phase = "ret")
            => BoundAmong(ex'.globals, ExecTop(ex).node.block_type.targets) = ExecTop(ex).backup

\* C3: when a for loop finishes, after no, one or many iterations and also
\* inside a loop over the same name, every target is bound to the value it
\* had before the loop, and a target that was unbound before the loop is
\* unbound.
C3_ForScopeNeutral == [][C3_Step]_vars /\ []C3_Final

C3_Witness ==
    /\ Finished /\ ex.state = "ok"
    /\ src = ForNestedSame
    /\ ex.output = <<"3", "1", "3", "2">>
    /\ BoundAmong(ex.globals, <<nm_x>>) = {Binding(nm_x, PyInt(7))}

(* Termination is stated as a variant: a number that is positive while       *)
(* pypage_process runs and that every step makes smaller.  It counts the     *)
(* steps the running calls can still take if no loop ends before its guard   *)
(* stops it; the bodies of the loops it is defined for hold no blocks.       *)

\* the steps of one pass of the main loop: the test, the children, the count
PerIteration(node) == Len(node.children) + 2

\* the steps of a call of exec_tree on a while block, its return included
WhileCallSteps(node) == Len(node.children) + 3 + max_iterations * PerIteration(node)

\* the steps the call f of exec_tree on a while block can still take
WhileStepsLeft(f) ==
    CASE f.phase = "ret" -> 1
      [] f.phase = "test" -> (max_iterations - f.iteration_count) * PerIteration(f.node) + 1
      [] f.phase = "children" ->
            (Len(f.node.children) - f.idx) + 2
                + (max_iterations - f.iteration_count - 1) * PerIteration(f.node)
      [] f.phase = "dofirst" ->
            (Len(f.node.children) - f.idx) + 2 + max_iterations * PerIteration(f.node)
      [] OTHER -> WhileCallSteps(f.node)

\* the steps a child of the root takes: one for a leaf, the call and the
\* steps of the call for a while block
ChildSteps(child) == IF child.type = "Block" THEN 1 + WhileCallSteps(child) ELSE 1

RECURSIVE StepsOf(_)
StepsOf(children) ==
    IF children = <<>> THEN 0 ELSE ChildSteps(Head(children)) + StepsOf(Tail(children))

\* the children of the root from the (0-based) index `from` on
ChildrenFrom(f, from) == SubSeq(f.node.children, from + 1, Len(f.node.children))

Variant ==
    IF ~Executing THEN 0
    ELSE IF Len(ex.stack) = 1 THEN StepsOf(ChildrenFrom(ex.stack[1], ex.stack[1].idx)) + 1
    ELSE WhileStepsLeft(ex.stack[2])
            + StepsOf(ChildrenFrom(ex.stack[1], ex.stack[1].idx + 1)) + 1

\* the running call can take a step: the guard of one of the actions holds
CanStep ==
    \/ Rendering
    \/ Rendered
    \/ (Len(ex.stack) > 1 /\ ExecTop(ex).phase \in {"enter", "test", "ret"})

\* the main loop renders the body only while fewer than max_iterations
\* renderings are counted, and a running call can always take a step
C6_Bounded ==
    Executing
        => /\ \A k \in 1..Len(ex.stack) :
                (ex.stack[k].node.type = "Block" /\ ex.stack[k].node.block_type.kind = "While"
                      /\ ~ex.stack[k].node.block_type.slow)
                    => /\ ex.stack[k].iteration_count <= max_iterations
                       /\ ex.stack[k].phase \in {"test", "children"}
                              => ex.stack[k].iteration_count < max_iterations
           /\ Variant > 0
           /\ CanStep

\* a loop is left with its condition truthy: a guard has stopped it
GuardStops ==
    /\ Rendered /\ ExecTop(ex).node.type = "Block"
    /\ TopKind = "While" /\ ExecTop(ex).phase = "children"
    /\ ex'.state = "running" /\ ExecTop(ex').phase = "ret"

C6_Step ==
    \* every step of a running pypage_process brings its return nearer
    /\ Executing => Variant' < Variant
    \* the guard writes one line, which names the condition
    /\ GuardStops
            => /\ Len(ex'.stderr) = Len(ex.stderr) + 1
               /\ SubSeq(ex'.stderr, 1, Len(ex.stderr)) = ex.stderr
               /\ ex'.stderr[Len(ex'.stderr)].expr = ExecTop(ex).node.block_type.expr
    \* no other step writes to the error stream
    /\ (Executing /\ ~GuardStops /\ ex'.state # "idle") => ex'.stderr = ex.stderr
    \* the loop returns what it has rendered and its caller goes on to the next node
    /\ (InPhase("ret") /\ TopKind = "While")
            => /\ ex'.state = "running"
               /\ Len(ex'.stack) = Len(ex.stack) - 1
               /\ ExecTop(ex').idx = ex.stack[Len(ex.stack) - 1].idx + 1
               /\ ExecTop(ex').output = ex.stack[Len(ex.stack) - 1].output \o ExecTop(ex).output

\* for the loop `while True` with an empty body and `t` behind it
C6_Final ==
    (Finished /\ src = WhileTrue)
        => /\ ex.state = "ok"
           /\ ex.output = <<"t">>
           /\ Len(ex.stderr) = 1
           /\ ex.stderr[1].expr = kw_True

\* C6: with `slow` unset, a while loop whose condition stays truthy ends: its
\* main loop renders the body at most max_iterations (10,000) times; the
\* guard that stops it writes exactly one diagnostic line, which names the
\* condition; and evaluation goes on with the nodes behind the loop until
\* pypage_process returns.
C6_WhileGuard == [][C6_Step]_vars /\ []C6_Bounded /\ []C6_Final

C6_Witness ==
    /\ Finished /\ ex.state = "ok"
    /\ src = WhileTrue
    /\ ex.stderr = <<Diagnostic(kw_True, max_iterations, "iteration")>>
    /\ ex.output = <<"t">>

----------------------------------------------------------------------------
(* Claims about the builders *)

\* the block the running builder builds is not a Conditional: build_tree
\* builds the root, the other builders a block
OutsideConditional ==
    Top(ps).fn = "build_tree" \/ Top(ps).node.block_type.kind # "Conditional"

\* how the parse ends from the state p
ParseEnds(p, e) == ParseRun(p).state = "err" /\ ParseRun(p).error = e

C11_Step ==
    (/\ Reading("Block")
     /\ TagRead.ok
     /\ IsContinuationTag(TagRead.block_type)
     /\ OutsideConditional)
        => ParseEnds(ps', Error("ElifOrElseWithoutIf", <<>>, <<>>, TokenRead.loc))

\* C11: once a builder whose block is not a Conditional (the root, or an
\* open for, while, def, capture or comment block, also one inside an open
\* if) reads an `elif` or `else` tag, the parse ends with
\* ElifOrElseWithoutIf at the Location of that tag.
C11_ElifOrElseWithoutIf == [][C11_Step]_vars

C12_Step ==
    (/\ Reading("Block")
     /\ Top(ps).fn = "build_tree"
     /\ ps.queue = <<>>
     /\ TagRead.ok
     /\ TagRead.block_type.kind = "End")
        => FailsWith(Error("UnboundEndBlockTag", kw_end \o TagRead.block_type.tag_to_end,
                           <<>>, TokenRead.loc))

\* C12: an end tag, generic or specific, that build_tree reads from the
\* token stream while no block is open makes the parse fail with
\* UnboundEndBlockTag carrying `end` followed by the tag it names, and the
\* Location of the tag.
C12_UnboundEndBlockTag == [][C12_Step]_vars

C12_Witness ==
    /\ pc = "parse" /\ ps # PsIdle /\ ps.state = "err"
    /\ src = text_t \o tag_endfor
    /\ ps.error = Error("UnboundEndBlockTag", kw_end \o kw_for, <<>>, Location(1, 1))

----------------------------------------------------------------------------
(* Claims about code tags and functions *)

\* the code of the Code node about to be rendered, as run_code hands it over
CodeRead == Trim(unescape_str_cow(NextChild.src))

\* what the host answers when that code is evaluated as an expression
CodeValue == py_eval(CodeRead, ex.globals)

\* the default string form of a value, the empty string for None
StringForm(value) == IF value = PyNone THEN <<>> ELSE PyStrOf(value)

C13_Step ==
    (Rendering /\ NextChild.type = "Code" /\ CodeValue.ok)
        => /\ ex'.state = "running"
           /\ ExecTop(ex').output = ExecTop(ex).output \o StringForm(CodeValue.value)

\* C13: a Code tag whose expression evaluates to None renders the empty
\* string, and one whose expression evaluates to any other value renders
\* str(value), also when str(value) reads `None`.
C13_NoneRendersEmpty == [][C13_Step]_vars

\* the code about to be rendered calls a function a Def block defined, with
\* arguments that evaluate, and not as many as the block declared
WrongCountCall(words) ==
    /\ IsCall(words)
    /\ EvalAtom(words[1], ex.globals).ok
    /\ EvalAtom(words[1], ex.globals).value.t = "function"
    /\ \A k \in 1..Len(EvalArgs(SubSeq(words, 3, Len(words) - 1), ex.globals)) :
            EvalArgs(SubSeq(words, 3, Len(words) - 1), ex.globals)[k].ok
    /\ Len(EvalArgs(SubSeq(words, 3, Len(words) - 1), ex.globals))
            # EvalAtom(words[1], ex.globals).value.n

C14_Fails(words) ==
    /\ ex'.state = "err"
    /\ ex'.error.kind = "InvalidDefBlockMismatchingArgCount"
    /\ ex'.error.a = IntStr(EvalAtom(words[1], ex.globals).value.n)
    /\ ex'.error.b = IntStr(Len(EvalArgs(SubSeq(words, 3, Len(words) - 1), ex.globals)))

C14_Step ==
    (Rendering /\ NextChild.type = "Code" /\ WrongCountCall(split_whitespace(CodeRead)))
        => C14_Fails(split_whitespace(CodeRead))

\* C14: calling a function a Def block defined with a number of arguments
\* other than the number the block declared fails with
\* InvalidDefBlockMismatchingArgCount carrying the declared and the found
\* number.
C14_MismatchingArgCount == [][C14_Step]_vars

----------------------------------------------------------------------------
(* Claims about for loops and captures *)

\* the item the generator of the running for loop hands out next
ItemPulled == ExecTop(ex).generator.items[ExecTop(ex).generator.pos + 1]

\* the value the host's own iteration gives the name `target`: the for
\* clause binds its variables, as written, to the item; a name written
\* twice keeps the last value
HostValue(target, loop_vars, values) ==
    values[CHOOSE j \in 1..Len(loop_vars) :
              loop_vars[j] = target /\ \A i \in (j + 1)..Len(loop_vars) : loop_vars[i] # target]

\* every target is bound as the host's iteration binds it
BoundAsHost(g, targets, loop_vars, values) ==
    \A k \in 1..Len(targets) :
        /\ has_global(g, targets[k])
        /\ get_item(g, targets[k]) = HostValue(targets[k], loop_vars, values)

RECURSIVE Repeat(_, _)
Repeat(s, n) == IF n = 0 THEN <<>> ELSE s \o Repeat(s, n - 1)

\* the template is a for loop with texts in it and texts behind it
IsPlainLoop(tree) ==
    /\ tree.children # <<>>
    /\ tree.children[1].type = "Block"
    /\ tree.children[1].block_type.kind = "For"
    /\ TextOnly(tree.children[1].children)
    /\ TextOnly(Tail(tree.children))

\* the generator of the loop, made in the globals the render starts with
LoopGenerator(loop, seed_env) ==
    eval_as_object(loop.block_type.genexpr, PypageExec_new(seed_env))

EveryItemUnpacks(gen) ==
    \A k \in 1..Len(gen.items) : Unpacked(gen.vars, gen.items[k]).ok

C15_Step ==
    \* an item is pulled: the targets are bound and the body is rendered anew,
    \* behind what the loop has rendered
    /\ (InPhase("next") /\ generator_next(ExecTop(ex).generator, ex.globals).ok)
            => /\ ex'.state = "running"
               /\ BoundAsHost(ex'.globals, ExecTop(ex).node.block_type.targets,
                              ExecTop(ex).generator.vars,
                              Unpacked(ExecTop(ex).generator.vars, ItemPulled).values)
               /\ ExecTop(ex').generator.pos = ExecTop(ex).generator.pos + 1
               /\ ExecTop(ex').phase = "children"
               /\ ExecTop(ex').idx = 0
               /\ ExecTop(ex').output = ExecTop(ex).output
    \* the body is rendered: the loop pulls the next item
    /\ (Rendered /\ ExecTop(ex).node.type = "Block" /\ TopKind = "For")
            => /\ ExecTop(ex').phase = "next"
               /\ ExecTop(ex').output = ExecTop(ex).output
               /\ ExecTop(ex').generator = ExecTop(ex).generator

C15_Final ==
    (/\ Finished /\ ex.state = "ok" /\ ps.state = "ok"
     /\ IsPlainLoop(ps.tree)
     /\ LoopGenerator(ps.tree.children[1], ex.seed_env).ok
     /\ EveryItemUnpacks(LoopGenerator(ps.tree.children[1], ex.seed_env).generator))
        => ex.output =
              Repeat(TextOf(ps.tree.children[1].children),
                     Len(LoopGenerator(ps.tree.children[1], ex.seed_env).generator.items))
                  \o TextOf(Tail(ps.tree.children))

\* C15: in every iteration of a For block each target is bound to the value
\* the host's iteration of the for clause gives that name, one target to the
\* pulled value and several by position, in whatever order the tag writes
\* them; the children are rendered once for every pulled value and their
\* output is appended in the order of the iteration.
C15_ForBindsTargets == [][C15_Step]_vars /\ []C15_Final

C15_Witness ==
    /\ Finished /\ ex.state = "ok"
    /\ src = ForTag(<<"b", ",", "a">>, nm_ps) \o CodeTag(nm_a) \o CodeTag(nm_b) \o tag_end
    /\ ex.output = <<"2", "1", "4", "3">>

----------------------------------------------------------------------------
(* Claims about Locations and unfinished tags *)

\* the number of newlines among the first i characters of s
NewlinesBefore(s, i) == Cardinality({k \in 1..i : s[k] = "\n"})

\* the byte index of the last newline among the first i characters of s, 0
\* when there is none
LastNewlineBefore(s, i) ==
    IF \E k \in 1..i : s[k] = "\n"
    THEN (CHOOSE k \in 1..i : s[k] = "\n" /\ \A j \in (k + 1)..i : s[j] # "\n") - 1
    ELSE 0

\* the position of the character at byte index i of s
PositionOf(s, i) == Location(1 + NewlinesBefore(s, i), i - LastNewlineBefore(s, i))

\* the lexer is outside every tag and looks at an opener
AtOpener ==
    /\ pc = "lex"
    /\ lx.current_token.kind \in {"None", "Text"}
    /\ (AtPair(CODE_OPEN) \/ AtPair(COMMENT_OPEN) \/ AtPair(BLOCK_OPEN))

\* the lexer is inside a Code, Comment or Block tag
InTag == pc = "lex" /\ lx.current_token.kind \in {"Code", "Comment", "Block"}

\* the step emits a Code, Comment or Block token
TagEmitted ==
    /\ Len(lx'.tokens) = Len(lx.tokens) + 1
    /\ lx'.tokens[Len(lx'.tokens)].kind # "Text"

C16_Step ==
    /\ AtOpener => lx'.current_token.loc = PositionOf(src, lx.i)
    /\ (InTag /\ lx'.current_token.kind = lx.current_token.kind)
            => lx'.current_token.loc = lx.current_token.loc
    /\ (InTag /\ TagEmitted) => lx'.tokens[Len(lx'.tokens)].loc = lx.current_token.loc

\* C16: the Location of a Code, Comment or Block token is the position of
\* the first character of its opener: line 1 plus the number of newlines
\* before the opener, column the byte index of the opener minus the byte
\* index of the last newline before it (minus 0 when there is none).
C16_OpenerLocation == [][C16_Step]_vars

\* the body of the Block tag the lexer is in, up to the character it looks at
BlockBodyRead == Slice(src, lx.current_token.start, lx.i)

HasNewline(s) == \E k \in 1..Len(s) : s[k] = "\n"

C17_Step ==
    (pc = "lex" /\ lx.current_token.kind = "Block" /\ AtPair(BLOCK_CLOSE))
        => IF HasNewline(BlockBodyRead)
           THEN /\ lx'.result = "err"
                /\ lx'.error = Error("MultiLineBlockTag", <<>>, <<>>, lx.current_token.loc)
                /\ lx'.tokens = lx.tokens
           ELSE /\ lx'.result = "running"
                /\ lx'.tokens = Append(lx.tokens,
                                       Token("Block", BlockBodyRead, lx.current_token.loc))

NoMultiLineBlockToken ==
    pc = "lex"
        => \A k \in 1..Len(lx.tokens) :
              lx.tokens[k].kind = "Block" => ~HasNewline(lx.tokens[k].src)

OpenerOf(kind) ==
    CASE kind = "Code" -> CODE_OPEN [] kind = "Comment" -> COMMENT_OPEN [] OTHER -> BLOCK_OPEN
CloserOf(kind) ==
    CASE kind = "Code" -> CODE_CLOSE [] kind = "Comment" -> COMMENT_CLOSE [] OTHER -> BLOCK_CLOSE

C18_Step ==
    \* the input ends inside a tag
    /\ (InTag /\ lx.result = "running" /\ lx.i >= Len(src))
            => /\ lx'.result = "err"
               /\ lx'.error = Error("IncompleteTagNode", OpenerOf(lx.current_token.kind),
                                     CloserOf(lx.current_token.kind), lx.current_token.loc)
    \* the Location is recorded at the outermost opener: while the lexer is in
    \* the tag, an opener inside it included, the Location stays
    /\ (InTag /\ lx'.current_token.kind = lx.current_token.kind)
            => /\ lx'.current_token.loc = lx.current_token.loc
               /\ lx'.current_token.start = lx.current_token.start
    /\ (AtOpener /\ lx'.result = "running")
            => /\ lx'.current_token.start = lx.i + 2
               /\ lx'.current_token.loc.column = PositionOf(src, lx.i).column

\* lex has failed: it returns Err, and no tokens
Failed == pc = "lex" /\ lx.result = "err"

C18_NeverOkInTag == (pc = "lex" /\ lx.result = "ok") => ~InTag

----------------------------------------------------------------------------
(* Claims about comments *)

\* the tokens without the k-th
WithoutToken(toks, k) == SubSeq(toks, 1, k - 1) \o SubSeq(toks, k + 1, Len(toks))

\* the source with its k-th token, a comment tag, deleted
Erased(k) == RewrapAll(WithoutToken(lx.tokens, k))

\* the places of the comment tags of the source
CommentTags == {k \in 1..Len(lx.tokens) : lx.tokens[k].kind = "Comment"}

\* processing s succeeds and returns what processing the source returned
SameOutput(s) ==
    /\ pypage_process(s, ex.seed_env).state = "ok"
    /\ pypage_process(s, ex.seed_env).output = ex.output

C19_Erase ==
    (Finished /\ ex.state = "ok") => \A k \in CommentTags : SameOutput(Erased(k))

NotComment(tok) == tok.kind # "Comment"

\* the builders build from the tokens what they build from the tokens that
\* are not comments: a comment gives no node to evaluate
C19_NoNode ==
    (pc = "process" /\ ps # PsIdle /\ lx.result = "ok")
        => /\ ParseRun(ParseInit(SelectSeq(prune_tokens(lx.tokens), NotComment))).state = ps.state
           /\ ParseRun(ParseInit(SelectSeq(prune_tokens(lx.tokens), NotComment))).tree = ps.tree
           /\ ParseRun(ParseInit(SelectSeq(prune_tokens(lx.tokens), NotComment))).error = ps.error

\* C19: when a source processes successfully, the source with one of its
\* comment tags deleted (nested comments with it) processes successfully to
\* the same output; the tree holds no node for a comment, so a comment adds
\* nothing to the output and nothing of it is evaluated.
C19_CommentsErase == []C19_Erase /\ []C19_NoNode

C19_Witness ==
    /\ Finished /\ ex.state = "ok"
    /\ src = <<"a">> \o comment_nested \o CodeTag(nm_x)
    /\ ex.output = <<"a", "7">>
    /\ SameOutput(<<"a">> \o CodeTag(nm_x))

----------------------------------------------------------------------------
(* Claims about capture blocks *)

\* the running call evaluates a Capture block
InCapture == Executing /\ ExecTop(ex).node.type = "Block" /\ TopKind = "Capture"

\* the call that called the running call
ExecCaller == ex.stack[Len(ex.stack) - 1]

\* the running call has another call under it, which evaluates a Capture block
CallerIsCapture ==
    /\ Len(ex.stack) >= 2
    /\ ExecCaller.node.type = "Block"
    /\ ExecCaller.node.block_type.kind = "Capture"

\* the buffer of the running call grows by s and the call moves one child on
BufferTakes(s) ==
    /\ ex'.state = "running"
    /\ Len(ex'.stack) = Len(ex.stack)
    /\ ExecTop(ex').output = ExecTop(ex).output \o s
    /\ ExecTop(ex').idx = ExecTop(ex).idx + 1

C20_Step ==
    \* the children are rendered one after the other, each behind the buffer
    /\ (InCapture /\ Rendering /\ NextChild.type = "Text") => BufferTakes(NextChild.src)
    /\ (InCapture /\ Rendering /\ NextChild.type = "Code"
            /\ run_code(NextChild.src, ex.globals).ok)
            => BufferTakes(run_code(NextChild.src, ex.globals).output)
    /\ (InCapture /\ Rendering /\ NextChild.type = "Block")
            => (ex'.state = "running"
                    => /\ Len(ex'.stack) = Len(ex.stack) + 1
                       /\ ExecTop(ex').node = NextChild
                       /\ ExecTop(ex').output = <<>>
                       /\ ex'.stack[Len(ex.stack)] = ExecTop(ex))
    /\ (InPhase("ret") /\ CallerIsCapture)
            => /\ Len(ex'.stack) = Len(ex.stack) - 1
               /\ ExecTop(ex').output = ExecCaller.output \o ExecTop(ex).output
               /\ ExecTop(ex').idx = ExecCaller.idx + 1
    \* after the last child the name is bound to the buffer, a string, and
    \* the block returns the empty string
    /\ (InCapture /\ Rendered)
            => /\ ex'.state = "running"
               /\ ex'.globals = set_item(ex.globals, ExecTop(ex).node.block_type.varname,
                                         PyStr(ExecTop(ex).output))
               /\ ExecTop(ex').phase = "ret"
               /\ ExecTop(ex').output = <<>>
               /\ ex'.output = ex.output
    \* the caller takes nothing from the block, and the binding stays
    /\ (InCapture /\ InPhase("ret"))
            => /\ ExecTop(ex').output = ExecCaller.output
               /\ ex'.globals = ex.globals
               /\ ex'.output = ex.output

\* a Capture block of the name v has just bound it
JustCaptured == InCapture /\ InPhase("ret") /\ ExecTop(ex).node.block_type.varname = nm_v

\* the name v is bound
CapturedBound == ex.state # "idle" /\ has_global(ex.globals, nm_v)

\* a For loop that binds the name v is running around the running call
InsideForOfName ==
    \E k \in 1..(Len(ex.stack) - 1) :
        /\ ex.stack[k].node.type = "Block"
        /\ ex.stack[k].node.block_type.kind = "For"
        /\ nm_v \in Range(ex.stack[k].node.block_type.targets)

\* the names of the Capture blocks among the children the call has rendered
RenderedCaptures(f) ==
    {f.node.children[j].block_type.varname :
        j \in {i \in 1..f.idx : /\ f.node.children[i].type = "Block"
                                /\ f.node.children[i].block_type.kind = "Capture"}}

\* a For loop that binds the name is among the first k calls
ForOfNameUpTo(k, name) ==
    \E i \in 1..k :
        /\ ex.stack[i].node.type = "Block"
        /\ ex.stack[i].node.block_type.kind = "For"
        /\ name \in Range(ex.stack[i].node.block_type.targets)

\* when the render has ended well, the names the Capture blocks of the top
\* level bound are bound
BoundAtEnd ==
    (Finished /\ ex.state = "ok")
        => \A name \in RenderedCaptures([node |-> ps.tree, idx |-> Len(ps.tree.children)]) :
                has_global(ex.globals, name)

\* while a call runs, every name a Capture block among its rendered children
\* bound is bound
C20_StaysBound ==
    /\ Executing => \A k \in 1..Len(ex.stack) : \A name \in RenderedCaptures(ex.stack[k]) :
                        has_global(ex.globals, name)
    /\ BoundAtEnd

C20_StaysBoundOutsideFor ==
    /\ Executing => \A k \in 1..Len(ex.stack) : \A name \in RenderedCaptures(ex.stack[k]) :
                        ForOfNameUpTo(k, name) \/ has_global(ex.globals, name)
    /\ BoundAtEnd

C20_CaptureAsStated == [][C20_Step]_vars /\ []C20_StaysBound

\* C20: a Capture block renders its children in order into a buffer, binds
\* its variable name in the host environment to the buffer as a string and
\* adds nothing to the output; unless a For loop that binds the same name is
\* running around the block, the name stays bound for the rest of the render.
C20_Capture ==
    /\ [][C20_Step]_vars
    /\ []C20_StaysBoundOutsideFor
    /\ []((JustCaptured /\ ~InsideForOfName) => []CapturedBound)

C20_Witness ==
    /\ Finished /\ ex.state = "ok"
    /\ src = CaptureOfBlock
    /\ ex.output = <<"c", "a", "b", "7">>
    /\ has_global(ex.globals, nm_v)
    /\ get_item(ex.globals, nm_v) = PyStr(<<"a", "b", "7">>)

----------------------------------------------------------------------------
(* Claims about the trees parse returns *)

\* parse has returned Ok(tree)
Parsed == pc = "parse" /\ ps # PsIdle /\ ps.state = "ok"

\* the node, and every node under it: its children and its continuation
RECURSIVE NodesOf(_)
NodesOf(node) ==
    {node}
        \cup UNION {NodesOf(node.children[k]) : k \in 1..Len(node.children)}
        \cup (IF node.block_type.continuation # <<>>
              THEN NodesOf(node.block_type.continuation[1])
              ELSE {})

HasContinuation(node) == node.block_type.continuation # <<>>

ContinuationOf(node) == node.block_type.continuation[1]

IsConditionalOf(node, tag_types) ==
    /\ node.type = "Block"
    /\ node.block_type.kind = "Conditional"
    /\ node.block_type.tag_type \in tag_types

\* C21: in the tree parse returns, a Conditional node of kind Else has no
\* continuation, in whatever order elif and else tags follow an if.
C21_ElseIsLast ==
    Parsed => \A n \in NodesOf(ps.tree) : IsConditionalOf(n, {"Else"}) => ~HasContinuation(n)

\* C22: in the tree parse returns, no Conditional node of kind Elif or Else
\* is among the children of the root or of a block, and every continuation
\* is a Conditional node of kind Elif or Else.
C22_ContinuationsOnly ==
    Parsed => \A n \in NodesOf(ps.tree) :
                /\ \A k \in 1..Len(n.children) : ~IsConditionalOf(n.children[k], {"Elif", "Else"})
                /\ HasContinuation(n) => IsConditionalOf(ContinuationOf(n), {"Elif", "Else"})

C22_Witness ==
    /\ Parsed
    /\ src = tag_if \o tag_elif \o tag_else \o tag_end
    /\ Len(ps.tree.children) = 1
    /\ IsConditionalOf(ps.tree.children[1], {"If"})
    /\ IsConditionalOf(ContinuationOf(ps.tree.children[1]), {"Elif"})
    /\ IsConditionalOf(ContinuationOf(ContinuationOf(ps.tree.children[1])), {"Else"})

\* the nodes the builders that run hold
NodesInHand == UNION {NodesOf(ps.stack[k].node) : k \in 1..Len(ps.stack)}

IsEndNode(node) == node.type = "Block" /\ node.block_type.kind = "End"

\* the Block tokens that are end tags
EndTokens ==
    {k \in 1..Len(lx.tokens) :
        /\ lx.tokens[k].kind = "Block"
        /\ parse_block_type(lx.tokens[k].src, lx.tokens[k].loc).ok
        /\ parse_block_type(lx.tokens[k].src, lx.tokens[k].loc).block_type.kind = "End"}

\* C23: no Block node of kind End is in the tree parse returns, nor in a
\* node a builder holds while the parse runs, as a child or as a
\* continuation at any depth.
C23_NoEndNode ==
    /\ Parsed => \A n \in NodesOf(ps.tree) : ~IsEndNode(n)
    /\ (pc = "parse" /\ ps # PsIdle /\ ps.state = "running")
            => \A n \in NodesInHand : ~IsEndNode(n)

C23_Witness ==
    /\ Parsed
    /\ src = tag_for \o text_t \o tag_endfor \o text_t
    /\ EndTokens = {3}
    /\ Len(ps.tree.children) = 2
    /\ ps.tree.children[1].block_type.kind = "For"
    /\ ps.tree.children[1].children = <<TextNode(text_t)>>
    /\ ps.tree.children[2] = TextNode(text_t)

\* the function name and the argument names of a Def node
DefNames(node) == <<node.block_type.funcname>> \o node.block_type.argnames

\* C24: in every Def node of the tree parse returns, the function name and
\* the argument names are identifiers, and no name stands twice.
C24_DefNamesDistinct ==
    Parsed => \A n \in NodesOf(ps.tree) :
                (n.type = "Block" /\ n.block_type.kind = "Def")
                    => /\ \A k \in 1..Len(DefNames(n)) : is_identifier(DefNames(n)[k])
                       /\ \A j, k \in 1..Len(DefNames(n)) :
                            j # k => DefNames(n)[j] # DefNames(n)[k]

----------------------------------------------------------------------------
(* Claims about end tags *)

\* the kind name of a block: `if` for a whole if/elif/else chain
KindName(block_type) ==
    CASE block_type.kind = "Conditional" -> kw_if
      [] block_type.kind = "For" -> kw_for
      [] block_type.kind = "While" -> kw_while
      [] block_type.kind = "Def" -> kw_def
      [] block_type.kind = "Capture" -> kw_capture
      [] block_type.kind = "Comment" -> kw_comment

\* a builder of a block reads an end tag: the block is open, and is the
\* innermost open one
EndReadInBlock ==
    /\ Reading("Block")
    /\ TagRead.ok
    /\ TagRead.block_type.kind = "End"
    /\ Top(ps).fn = "build_tree_for_block_with_reason"

\* the kind name the end tag carries, empty for the generic end tag
EndKind == TagRead.block_type.tag_to_end

\* the running builder has closed its block: it returns, and nothing is
\* pushed back
ClosesBlock(p, depth) ==
    /\ p.state = "running"
    /\ Len(p.stack) = depth
    /\ Top(p).pc = "ret"
    /\ Top(p).stop = NoStop
    /\ p.queue = <<>>

\* the builders of the open blocks of kind EndKind around the innermost one
EnclosingOfKind ==
    {j \in 1..(Len(ps.stack) - 1) :
        /\ ps.stack[j].fn = "build_tree_for_block_with_reason"
        /\ KindName(ps.stack[j].node.block_type) = EndKind}

NearestOfKind == CHOOSE j \in EnclosingOfKind : \A k \in EnclosingOfKind : k <= j

\* the parse from p, until the builder at `depth` runs again or the parse ends
RECURSIVE UnwindTo(_, _)
UnwindTo(p, depth) ==
    IF p.state # "running" \/ Len(p.stack) <= depth THEN p
    ELSE UnwindTo(ParseStep(p), depth)

\* the builder at `depth` runs again with the end tag pushed back for it,
\* the blocks opened inside its block ended and made its last child; the
\* end tag is the next token it reads, and closes its block
ClosesEnclosing(p, depth) ==
    /\ p.state = "running"
    /\ Len(p.stack) = depth
    /\ Top(p).pc = "loop"
    /\ p.queue = <<TokenRead>>
    /\ p.pos = TokenQueueNext(ps).pos
    /\ Len(Top(p).node.children) = Len(ps.stack[depth].node.children) + 1
    /\ Top(p).node.children[Len(Top(p).node.children)].type = "Block"
    /\ Top(p).node.children[Len(Top(p).node.children)].loc = ps.stack[depth + 1].node.loc
    /\ ClosesBlock(ParseStep(p), depth)
    /\ ParseStep(p).pos = p.pos

C25_Step ==
    EndReadInBlock
        => /\ EndKind = <<>> => ClosesBlock(ps', Len(ps.stack))
           /\ (EndKind # <<>> /\ KindName(Top(ps).node.block_type) = EndKind)
                => ClosesBlock(ps', Len(ps.stack))
           /\ (EndKind # <<>> /\ KindName(Top(ps).node.block_type) # EndKind)
                => /\ ps'.state = "running"
                   /\ Top(ps').pc = "ret"
                   /\ Top(ps').stop = StopReason("EndTag", TokenRead)
                   /\ EnclosingOfKind # {}
                        => ClosesEnclosing(UnwindTo(ps', NearestOfKind), NearestOfKind)
                   /\ EnclosingOfKind = {}
                        => ParseEnds(ps', Error("UnboundEndBlockTag", kw_end \o EndKind, <<>>,
                                               TokenRead.loc))

\* C25: in an open block the generic end tag closes the innermost open
\* block whatever its kind; an end tag that names a kind closes the
\* innermost open block when that is its kind name (`if` for a whole chain),
\* and otherwise is pushed back until the builder of the nearest enclosing
\* open block of that kind reads it and closes its block, every block opened
\* inside ended; with no such block the parse fails with UnboundEndBlockTag.
C25_EndTagCloses == [][C25_Step]_vars

C25_Witness ==
    /\ pc = "parse" /\ ps # PsIdle /\ ps.state = "running"
    /\ src = tag_for \o tag_if \o text_t \o tag_endfor
    /\ ps.pos = 4
    /\ ps.queue = <<>>
    /\ Len(ps.stack) = 3
    /\ Top(ps).node.block_type.kind = "For"
    /\ Top(ps).pc = "ret"
    /\ Top(ps).stop = NoStop
    /\ Len(Top(ps).node.children) = 1
    /\ Top(ps).node.children[1].block_type.kind = "Conditional"
    /\ Top(ps).node.children[1].children = <<TextNode(text_t)>>

----------------------------------------------------------------------------
(* Claims about the end of a for loop *)

\* what __next__ of the loop's generator answers
NextPulled == generator_next(ExecTop(ex).generator, ex.globals)

C26_Step ==
    InPhase("next")
        => \* exhaustion ends the loop: the block returns what it has rendered
           /\ (~NextPulled.ok /\ NextPulled.exc = "StopIteration")
                => /\ ex'.state = "running"
                   /\ ExecTop(ex').phase = "ret"
                   /\ ExecTop(ex').output = ExecTop(ex).output
           \* any other exception of __next__ ends the render with that error
           /\ (~NextPulled.ok /\ NextPulled.exc # "StopIteration")
                => /\ ex'.state = "err"
                   /\ ex'.error = PythonError(NextPulled.exc)

\* C26: only the exhaustion of the iterator ends a for loop normally; when
\* __next__ raises another exception the render ends with that error and
\* returns no output.
C26_NextErrorAborts == [][C26_Step]_vars

----------------------------------------------------------------------------
(* Claims about the end of the tokens *)

\* the tokens are at their end while a builder of a block still runs
OpenAtEnd == Reading("None") /\ Len(ps.stack) > 1

\* the builders of the blocks that are open
OpenBlocks == {k \in 1..Len(ps.stack) : ps.stack[k].fn = "build_tree_for_block_with_reason"}

IsPrefix(s, t) == Len(s) <= Len(t) /\ SubSeq(t, 1, Len(s)) = s

\* the tree holds the block of the builder, with the children the builder
\* has pushed and, behind them, at most the block that was open inside it
HeldIn(tree, open, innermost) ==
    \E n \in NodesOf(tree) :
        /\ n.type = "Block"
        /\ n.src = open.node.src
        /\ n.loc = open.node.loc
        /\ n.block_type.kind = open.node.block_type.kind
        /\ IsPrefix(open.node.children, n.children)
        /\ Len(n.children) = Len(open.node.children) + (IF innermost THEN 0 ELSE 1)

C27_ClosedAtEnd ==
    OpenAtEnd
        => /\ ParseRun(ps).state = "ok"
           /\ \A k \in OpenBlocks : HeldIn(ParseRun(ps).tree, ps.stack[k], k = Len(ps.stack))

C27_NeverUnclosedTag ==
    (pc = "parse" /\ ps # PsIdle /\ ps.state = "err") => ps.error.kind # "UnclosedTag"

\* C27: when the tokens end while blocks are open, parse returns Ok: every
\* open block is in the tree with all the nodes read since its opening tag;
\* no parse ends with UnclosedTag.
C27_OpenBlocksClose == []C27_ClosedAtEnd /\ []C27_NeverUnclosedTag

C27_Witness ==
    /\ Parsed
    /\ src = tag_if \o text_t \o tag_for \o text_t
    /\ Len(ps.tree.children) = 1
    /\ ps.tree.children[1].block_type.kind = "Conditional"
    /\ Len(ps.tree.children[1].children) = 2
    /\ ps.tree.children[1].children[1] = TextNode(text_t)
    /\ ps.tree.children[1].children[2].block_type.kind = "For"
    /\ ps.tree.children[1].children[2].children = <<TextNode(text_t)>>

----------------------------------------------------------------------------
(* Claims about the order of the leaves *)

Leaf(kind, s, loc) == [kind |-> kind, src |-> s, loc |-> loc]

\* the Text and Code nodes under a node, depth-first: the children of a
\* block in order, then its continuation
RECURSIVE Leaves(_)
RECURSIVE LeavesOfAll(_)
Leaves(node) ==
    IF node.type \in {"Text", "Code"} THEN <<Leaf(node.type, node.src, node.loc)>>
    ELSE LeavesOfAll(node.children)
            \o (IF HasContinuation(node) THEN Leaves(ContinuationOf(node)) ELSE <<>>)

LeavesOfAll(nodes) ==
    IF nodes = <<>> THEN <<>> ELSE Leaves(Head(nodes)) \o LeavesOfAll(Tail(nodes))

\* the Text and Code tokens, in the order of the lexer
RECURSIVE TokenLeaves(_)
TokenLeaves(toks) ==
    IF toks = <<>> THEN <<>>
    ELSE (CASE Head(toks).kind = "Text" -> <<Leaf("Text", Head(toks).src, NoLoc)>>
            [] Head(toks).kind = "Code" -> <<Leaf("Code", Head(toks).src, Head(toks).loc)>>
            [] OTHER -> <<>>)
         \o TokenLeaves(Tail(toks))

\* C28: the Text and Code nodes of the tree parse returns, walked
\* depth-first (children in order, then the continuation), are the Text and
\* Code tokens of the lexer, in their order, each once.
C28_LeavesInOrder == Parsed => Leaves(ps.tree) = TokenLeaves(lx.tokens)

C28_Witness ==
    /\ Parsed
    /\ src = ElseThroughFor
    /\ Len(Leaves(ps.tree)) = 3
    /\ Leaves(ps.tree)[1].src = text_t
    /\ Leaves(ps.tree)[2].kind = "Code"
    /\ Leaves(ps.tree)[3].src = text_t
    /\ HasContinuation(ps.tree.children[1])

----------------------------------------------------------------------------
(* Claims about the push-back queue *)

Parsing == pc = "parse" /\ ps # PsIdle /\ ps.state = "running"

\* the queue holds at most one token, and that is the token taken last from
\* the stream
C29_AtMostOne ==
    (pc = "parse" /\ ps # PsIdle)
        => /\ Len(ps.queue) <= 1
           /\ ps.queue # <<>> => (ps.pos >= 1 /\ ps.queue = <<ps.tokens[ps.pos]>>)
           /\ ps.state = "ok" => ps.queue = <<>>

C29_Step ==
    Parsing
        => \* a token is pushed back only on the empty queue, by a builder that
           \* returns to its caller
           /\ (ps'.state = "running" /\ ps'.queue # <<>> /\ ps'.queue # ps.queue)
                => /\ ps.queue = <<>>
                   /\ Top(ps).pc = "ret"
                   /\ Top(ps).stop.token = ps'.queue[1]
           \* while a token is pushed back none is taken from the stream: the
           \* builders above return, and the first one that reads reads it
           /\ ps.queue # <<>>
                => /\ ps'.pos = ps.pos
                   /\ Top(ps).pc = "ret"
                        => (ps'.state = "running" /\ ps'.queue = ps.queue
                                /\ Len(ps'.stack) < Len(ps.stack))
                   /\ Top(ps).pc = "loop"
                        => (TokenRead = ps.queue[1]
                                /\ (ps'.state = "running" => ps'.queue = <<>>))

\* C29: the push-back queue holds at most one token at every point of a
\* parse, and a token pushed back is the next token read, by the nearest
\* builder below that reads again.
C29_OneTokenPushBack == []C29_AtMostOne /\ [][C29_Step]_vars

C29_Witness ==
    /\ Parsing
    /\ src = EndifThroughFor
    /\ ps.queue = <<ps.tokens[5]>>
    /\ parse_block_type(ps.queue[1].src, ps.queue[1].loc).block_type.tag_to_end = kw_if
    /\ Top(ps).pc = "loop"
    /\ Top(ps).node.block_type.kind = "Conditional"
    /\ Len(Top(ps).node.children) = 1

----------------------------------------------------------------------------
(* Claims about the order of parsing and evaluation *)

\* pypage_process has parsed, and parse returned Err
ParseFailed == pc = "process" /\ ex.state # "idle" /\ ps.state = "err"

\* when parse fails, pypage_process returns its error: no PypageExec is
\* made, nothing is rendered; and a render only ever runs on a tree that
\* parse returned
C30_NothingEvaluated ==
    /\ ParseFailed
            => /\ ex.state = "err"
               /\ ex.error = ps.error
               /\ ex.output = <<>>
               /\ ex.globals = {}
               /\ ex.stack = <<>>
    /\ (pc = "process" /\ ex.state \in {"running", "ok"})
            => (ps.state = "ok" /\ lx.result = "ok")

\* no step follows a failed parse, and no step changes the seed environment
C30_Step ==
    /\ ParseFailed => UNCHANGED vars
    /\ pc = "process" => ex'.seed_env = ex.seed_env

\* C30: pypage_process evaluates no host code before the whole source has
\* been lexed and parsed: when lex or parse fails, the error is returned
\* with no code evaluated and no environment made or changed, also when
\* code stands before the error in the source.
C30_ParseBeforeEval == []C30_NothingEvaluated /\ [][C30_Step]_vars

C30_Witness ==
    /\ ParseFailed
    /\ src = CodeBeforeParseError
    /\ ex.error.kind = "UnknownTag"
    /\ ex.seed_env = <<SeedEnv(<<PyInt(7)>>, <<>>, PyList(<<>>))>>
    /\ lx.result = "ok"
    /\ Len(lx.tokens) = 3

----------------------------------------------------------------------------
(* Claims about the two ways of a Code tag *)

\* what the host answers when the code read is executed as statements
CodeRun == py_run(CodeRead, ex.globals)

\* the running call has rendered its child as s and moved one child on
ChildRendered(s) ==
    /\ ex'.state = "running"
    /\ Len(ex'.stack) = Len(ex.stack)
    /\ ExecTop(ex').output = ExecTop(ex).output \o s
    /\ ExecTop(ex').idx = ExecTop(ex).idx + 1

C31_Step ==
    (Rendering /\ NextChild.type = "Code")
        => \* the evaluation as an expression succeeds: its value is rendered,
           \* and the globals are those this one evaluation leaves
           /\ CodeValue.ok
                => /\ ChildRendered(IF PyStrOf(CodeValue.value) = kw_None THEN <<>>
                                    ELSE PyStrOf(CodeValue.value))
                   /\ ex'.globals = CodeValue.globals
           \* it fails: the code is executed as statements and renders nothing
           /\ (~CodeValue.ok /\ CodeRun.ok)
                => /\ ChildRendered(<<>>)
                   /\ ex'.globals = CodeRun.globals
           \* both fail: the render ends with the error of the execution
           /\ (~CodeValue.ok /\ ~CodeRun.ok)
                => /\ ex'.state = "err"
                   /\ ex'.error = PythonError(CodeRun.exc)

\* C31: the body of a Code tag is evaluated as an expression first; only
\* when that fails it is executed as statements, and the tag renders the
\* empty string; when that fails too the render ends with the host's error.
\* After an evaluation that succeeded the body is not executed again.
C31_ExpressionFirst == [][C31_Step]_vars

C31_Witness ==
    /\ Finished /\ ex.state = "ok"
    /\ src = BumpThenRead
    /\ ex.output = <<"1", "1">>
    /\ get_item(ex.globals, nm_n) = PyInt(1)

----------------------------------------------------------------------------
(* Claims about while loops *)

\* the running call evaluates a While block
InWhile == Executing /\ ExecTop(ex).node.type = "Block" /\ TopKind = "While"

\* the condition of the loop, tested in the globals as they are
WhileTest == eval_expression(ExecTop(ex).node.block_type.expr, ex.globals)

\* what one render of the children gives, when they are texts and codes
\* that assign: the texts
RECURSIVE TextsOf(_)
TextsOf(children) ==
    IF children = <<>> THEN <<>>
    ELSE (IF Head(children).type = "Text" THEN Head(children).src ELSE <<>>)
            \o TextsOf(Tail(children))

AssignsOrText(child) ==
    \/ child.type = "Text"
    \/ child.type = "Code" /\ IsAssignment(split_whitespace(Trim(child.src)))

PlainBody(node) == \A k \in 1..Len(node.children) : AssignsOrText(node.children[k])

\* the renders of the children the loop has finished: the one before the
\* first test, and one for each pass of the main loop
Passes(f) == (IF f.node.block_type.dofirst THEN 1 ELSE 0) + f.iteration_count

C32_Step ==
    \* with dofirst the children are rendered before the first test, without
    \* it the first test comes first
    /\ (InWhile /\ InPhase("enter"))
            => /\ ex'.state = "running"
               /\ ExecTop(ex').output = <<>>
               /\ ExecTop(ex').idx = 0
               /\ ExecTop(ex').iteration_count = 0
               /\ ExecTop(ex').phase =
                        (IF ExecTop(ex).node.block_type.dofirst THEN "dofirst" ELSE "test")
    \* the render before the first test is one render: the test follows it
    /\ (InWhile /\ Rendered /\ ExecTop(ex).phase = "dofirst")
            => /\ ExecTop(ex').phase = "test"
               /\ ExecTop(ex').iteration_count = 0
               /\ ExecTop(ex').output = ExecTop(ex).output
    \* a truthy test starts one render of the children, a falsy one ends the
    \* loop with what has been rendered
    /\ (InWhile /\ InPhase("test") /\ WhileTest.ok /\ WhileTest.truthy)
            => /\ ExecTop(ex').phase = "children"
               /\ ExecTop(ex').idx = 0
               /\ ExecTop(ex').iteration_count = ExecTop(ex).iteration_count
               /\ ExecTop(ex').output = ExecTop(ex).output
    /\ (InWhile /\ InPhase("test") /\ WhileTest.ok /\ ~WhileTest.truthy)
            => /\ ExecTop(ex').phase = "ret"
               /\ ExecTop(ex').output = ExecTop(ex).output
    \* after that render the pass is counted, and the next test follows
    \* unless a limit ends the loop
    /\ (InWhile /\ Rendered /\ ExecTop(ex).phase = "children")
            => /\ ExecTop(ex').iteration_count = ExecTop(ex).iteration_count + 1
               /\ ExecTop(ex').phase \in {"test", "ret"}
               /\ ExecTop(ex').output = ExecTop(ex).output

\* between its passes the loop holds one render of its children for the
\* render before the first test and one for each truthy test
C32_Passes ==
    (InWhile /\ ExecTop(ex).phase \in {"test", "ret"} /\ PlainBody(ExecTop(ex).node))
        => ExecTop(ex).output = Repeat(TextsOf(ExecTop(ex).node.children), Passes(ExecTop(ex)))

\* C32: a While block with dofirst renders its children once before the
\* first test of its condition and then once for each truthy test; without
\* dofirst nothing is rendered before the first test.  A condition falsy at
\* the start gives one render with dofirst and none without.
C32_Dofirst == [][C32_Step]_vars /\ []C32_Passes

C32_Witness ==
    /\ InWhile /\ InPhase("ret")
    /\ src = WhileTag(<<kw_dofirst, kw_False>>) \o WhileBody
    /\ ExecTop(ex).iteration_count = 0
    /\ ExecTop(ex).output = <<"a">>
    /\ get_item(ex.globals, nm_n) = PyInt(1)

====
